---- MODULE Spec2Model ----
(***************************************************************************)
(* lambda-mcp-adaptor: the MCP server core (registries, dispatcher,        *)
(* validating wrappers), the Zod argument validator, the bearer-token      *)
(* authentication middleware and the AWS Lambda boundary.                  *)
(*                                                                         *)
(* JavaScript strings whose content the code inspects (includes,           *)
(* startsWith, substring) are sequences of tokens; s.includes(p) is        *)
(* "p occurs as a contiguous run of tokens of s".                          *)
(* JavaScript values are records [t, n, s]: a tag, a number and a string.  *)
(***************************************************************************)
EXTENDS Integers, Sequences, FiniteSets, TLC

VARIABLES tools, resources, prompts, inv, registered, first, util

vars == <<tools, resources, prompts, inv, registered, first, util>>

(***************************************************************************)
(* JavaScript values                                                       *)
(***************************************************************************)
Val(t, n, s) == [t |-> t, n |-> n, s |-> s]
Undef == Val("undefined", 0, <<>>)
Null == Val("null", 0, <<>>)
Num(n) == Val("number", n, <<>>)
Str(s) == Val("string", 0, s)
\* a plain, serializable object (a handler's result payload), named by s
Obj(s) == Val("object", 0, s)
\* an object JSON.stringify rejects (a circular structure, a BigInt inside)
Circular == Val("circular", 0, <<>>)
\* new Error(msg); a TypeError raised by the runtime is an Error with its text
Err(msg) == Val("Error", 0, msg)
TypeErr == Err(<<"Cannot read properties">>)
\* a thrown object whose message is a Symbol: {message: Symbol()}
Unprintable == Val("unprintable", 0, <<>>)
\* the TypeError a template literal raises when it is given a Symbol
SymbolErr == Err(<<"Cannot convert a Symbol value to a string">>)
\* a ZodError with one issue: s = <<path, message>>
ZodErr(path, msg) == Val("ZodError", 0, <<path, msg>>)
\* {code, message} of a JSON-RPC error envelope
RpcError(code, msg) == Val("rpcerror", code, msg)
\* {content: [{type: 'text', text}], isError: true}
ToolError(text) == Val("toolError", 0, text)

Truthy(v) ==
    /\ v.t \notin {"undefined", "null"}
    /\ (v.t \in {"number", "boolean"} => v.n # 0)
    /\ (v.t = "string" => v.s # <<>>)

\* s.includes(p) on token strings
Includes(s, p) ==
    \E i \in 1..(Len(s) - Len(p) + 1) : SubSeq(s, i, i + Len(p) - 1) = p

\* `${v}` inside a template literal
ToText(v) ==
    CASE v.t = "string" -> v.s
      [] v.t = "undefined" -> <<"undefined">>
      [] v.t = "null" -> <<"null">>
      [] v.t = "number" -> <<"#number">>
      [] OTHER -> <<"[object Object]">>

\* v.message: a string for an Error, undefined for any other non-null value;
\* reading it off null or undefined raises a TypeError (HasProps is FALSE)
HasProps(v) == v.t \notin {"undefined", "null"}
Message(v) ==
    CASE v.t \in {"Error", "ZodError"} -> Str(v.s)
      [] v.t = "unprintable" -> Val("symbol", 0, <<>>)
      [] OTHER -> Undef
\* whether `${v}` gives a string rather than raising a TypeError
CanPrint(v) == v.t # "symbol"
ErrName(v) ==
    CASE v.t = "ZodError" -> "ZodError"
      [] v.t = "Error" -> "Error"
      [] OTHER -> "undefined"

\* a function b overriding a ({...a, ...b})
Merge(a, b) ==
    [k \in (DOMAIN a) \cup (DOMAIN b) |-> IF k \in DOMAIN b THEN b[k] ELSE a[k]]

EmptyObj == [k \in {} |-> Undef]

(***************************************************************************)
(* cors-config.mjs                                                         *)
(***************************************************************************)
CORS_HEADERS ==
    [k \in {"Access-Control-Allow-Origin", "Access-Control-Allow-Headers",
            "Access-Control-Allow-Methods"} |->
        CASE k = "Access-Control-Allow-Origin" -> <<"*">>
          [] k = "Access-Control-Allow-Headers" ->
                <<"Content-Type", "Accept", "Authorization",
                  "Mcp-Protocol-Version", "Mcp-Session-Id">>
          [] OTHER -> <<"GET", "POST", "OPTIONS">>]

BASIC_CORS_HEADERS == [k \in {"Access-Control-Allow-Origin"} |-> <<"*">>]

withCORS(additionalHeaders) == Merge(CORS_HEADERS, additionalHeaders)

withBasicCORS(additionalHeaders) == Merge(BASIC_CORS_HEADERS, additionalHeaders)

JsonContentType == [k \in {"Content-Type"} |-> <<"application/json">>]

(***************************************************************************)
(* lambda-adapter.mjs: responses                                           *)
(***************************************************************************)
\* JSON.stringify of an object: keys whose value is undefined are left out
CanStringify(o) == \A k \in DOMAIN o : o[k].t # "circular"
Stringify(o) == [k \in {j \in DOMAIN o : o[j].t # "undefined"} |-> o[k]]

\* a response body: the empty string, or the text of a JSON object
EmptyBody == [k |-> "empty", o |-> EmptyObj]
JsonBody(o) == [k |-> "json", o |-> Stringify(o)]

\* createResponse(body, statusCode, headers); body is '' or an object
createResponse(body, statusCode, headers) ==
    [statusCode |-> statusCode,
     headers |-> Merge(JsonContentType, headers),
     body |-> body]

\* createErrorResponse(statusCode, code, message, headers, id = null):
\* an undefined id takes the parameter's default, null
createErrorResponse(statusCode, code, message, headers, id) ==
    createResponse(
        JsonBody([k \in {"jsonrpc", "error", "id"} |->
            CASE k = "jsonrpc" -> Str(<<"2.0">>)
              [] k = "error" -> RpcError(code, message)
              [] OTHER -> IF id.t = "undefined" THEN Null ELSE id]),
        statusCode, headers)

(***************************************************************************)
(* schema-utils.mjs: Zod types, as the classes the code inspects           *)
(***************************************************************************)
\* one entry of _def.checks: {kind, value, inclusive}
Check(kind, value, inclusive) == [kind |-> kind, value |-> value, inclusive |-> inclusive]

\* description is '' for a type that was given none
ZString(checks) == [cls |-> "ZodString", checks |-> checks, description |-> << >>]
ZNumber(checks) == [cls |-> "ZodNumber", checks |-> checks, description |-> << >>]
ZBoolean == [cls |-> "ZodBoolean", description |-> << >>]
ZEnum(values) == [cls |-> "ZodEnum", values |-> values, description |-> << >>]
\* minLength and maxLength are null or a number
ZArray(type, minLength, maxLength) ==
    [cls |-> "ZodArray", type |-> type, minLength |-> minLength,
     maxLength |-> maxLength, description |-> << >>]
ZObject(shape) == [cls |-> "ZodObject", shape |-> shape, description |-> << >>]
ZOptional(inner) == [cls |-> "ZodOptional", inner |-> inner, description |-> << >>]
ZDefault(inner, d) ==
    [cls |-> "ZodDefault", inner |-> inner, def |-> d, description |-> << >>]

\* whether value v passes one check of a ZodString (a token of v.s standing
\* for one character where lengths are checked) or of a ZodNumber
PassesCheck(cls, check, v) ==
    CASE cls = "ZodString" /\ check.kind = "min" -> Len(v.s) >= check.value
      [] cls = "ZodString" /\ check.kind = "max" -> Len(v.s) <= check.value
      [] cls = "ZodString" /\ check.kind = "email" -> Includes(v.s, <<"@">>)
      [] cls = "ZodString" /\ check.kind = "url" -> Includes(v.s, <<"://">>)
      [] cls = "ZodString" /\ check.kind = "uuid" -> Includes(v.s, <<"-">>)
      [] cls = "ZodNumber" /\ check.kind = "min" ->
            IF check.inclusive THEN v.n >= check.value ELSE v.n > check.value
      [] cls = "ZodNumber" /\ check.kind = "max" ->
            IF check.inclusive THEN v.n <= check.value ELSE v.n < check.value
      [] OTHER -> TRUE

\* schema.parse(v) of the zod library: [ok, val]; array and object values
\* are outside the values modelled, so those types accept nothing here
RECURSIVE ZodParse(_, _)
ZodParse(z, v) ==
    CASE z.cls = "ZodOptional" ->
            IF v.t = "undefined" THEN [ok |-> TRUE, val |-> Undef]
            ELSE ZodParse(z.inner, v)
      [] z.cls = "ZodDefault" ->
            IF v.t = "undefined" THEN ZodParse(z.inner, z.def)
            ELSE ZodParse(z.inner, v)
      [] z.cls = "ZodString" ->
            [ok |-> /\ v.t = "string"
                    /\ \A i \in 1..Len(z.checks) : PassesCheck(z.cls, z.checks[i], v),
             val |-> v]
      [] z.cls = "ZodNumber" ->
            [ok |-> /\ v.t = "number"
                    /\ \A i \in 1..Len(z.checks) : PassesCheck(z.cls, z.checks[i], v),
             val |-> v]
      [] z.cls = "ZodBoolean" -> [ok |-> v.t = "boolean", val |-> v]
      [] z.cls = "ZodEnum" ->
            [ok |-> v.t = "string" /\ \E i \in 1..Len(z.values) : z.values[i] = v.s,
             val |-> v]
      [] z.cls = "ZodAny" -> [ok |-> TRUE, val |-> v]
      [] OTHER -> [ok |-> FALSE, val |-> v]

\* an isZodOptional that overlooks the default wrapper
isZodOptionalOnly(zodType) == zodType.cls = "ZodOptional"

isZodOptional(zodType) == zodType.cls \in {"ZodOptional", "ZodDefault"}

hasZodDefault(zodType) == zodType.cls = "ZodDefault"

\* args[key]
Get(args, key) == IF key \in DOMAIN args THEN args[key] ELSE Undef

\* validated[key] = value
Put(o, key, value) == [k \in (DOMAIN o) \cup {key} |-> IF k = key THEN value ELSE o[k]]

\* if (zodType.description) schema.description = zodType.description
WithDescription(schema, zodType) ==
    IF zodType.description # << >>
    THEN Put(schema, "description", zodType.description)
    ELSE schema

\* a switch that writes every format tag as it is named
StringConstraintByName(schema, check) ==
    CASE check.kind = "min" -> Put(schema, "minLength", check.value)
      [] check.kind = "max" -> Put(schema, "maxLength", check.value)
      [] check.kind \in {"email", "url", "uuid"} ->
            Put(schema, "format", check.kind)
      [] OTHER -> schema

\* the switch on check.kind in the ZodString branch
StringConstraint(schema, check) ==
    CASE check.kind = "min" -> Put(schema, "minLength", check.value)
      [] check.kind = "max" -> Put(schema, "maxLength", check.value)
      [] check.kind = "email" -> Put(schema, "format", "email")
      [] check.kind = "url" -> Put(schema, "format", "uri")
      [] check.kind = "uuid" -> Put(schema, "format", "uuid")
      [] OTHER -> schema

\* the switch on check.kind in the ZodNumber branch
NumberConstraint(schema, check) ==
    CASE check.kind = "min" -> Put(schema, "minimum", check.value)
      [] check.kind = "max" -> Put(schema, "maximum", check.value)
      [] check.kind = "int" -> Put(schema, "type", "integer")
      [] OTHER -> schema

\* for (const check of zodType._def.checks), from check i on, in the branch
\* of class cls
RECURSIVE Constraints(_, _, _, _)
Constraints(cls, schema, checks, i) ==
    IF i > Len(checks) THEN schema
    ELSE Constraints(cls,
            IF cls = "ZodString" THEN StringConstraint(schema, checks[i])
            ELSE NumberConstraint(schema, checks[i]),
            checks, i + 1)

\* minItems and maxItems of the ZodArray branch, items being the element's
\* schema
ArraySchema(zodType, items) ==
    LET base == ("type" :> "array") @@ ("items" :> items)
        withMin == IF zodType.minLength # Null
                   THEN Put(base, "minItems", zodType.minLength.n) ELSE base
    IN IF zodType.maxLength # Null
       THEN Put(withMin, "maxItems", zodType.maxLength.n) ELSE withMin

RECURSIVE convertZodTypeToJsonSchema(_)
RECURSIVE TranslateFrom(_, _, _, _)

\* zodToJsonSchema's loop from entry i on
TranslateFrom(zodSchema, i, properties, required) ==
    IF i > Len(zodSchema)
    THEN ("type" :> "object") @@ ("properties" :> properties)
            @@ ("required" :> required)
    ELSE TranslateFrom(zodSchema, i + 1,
            Put(properties, zodSchema[i].key,
                   convertZodTypeToJsonSchema(zodSchema[i].schema)),
            IF ~isZodOptional(zodSchema[i].schema)
            THEN Append(required, zodSchema[i].key)
            ELSE required)

zodToJsonSchema(zodSchema) == TranslateFrom(zodSchema, 1, << >>, << >>)

convertZodTypeToJsonSchema(zodType) ==
    CASE zodType.cls = "ZodOptional" -> convertZodTypeToJsonSchema(zodType.inner)
      [] zodType.cls = "ZodDefault" ->
            Put(convertZodTypeToJsonSchema(zodType.inner), "default", zodType.def)
      [] zodType.cls = "ZodString" ->
            WithDescription(
                Constraints(zodType.cls, "type" :> "string", zodType.checks, 1),
                zodType)
      [] zodType.cls = "ZodNumber" ->
            WithDescription(
                Constraints(zodType.cls, "type" :> "number", zodType.checks, 1),
                zodType)
      [] zodType.cls = "ZodBoolean" -> WithDescription("type" :> "boolean", zodType)
      [] zodType.cls = "ZodEnum" ->
            WithDescription(("type" :> "string") @@ ("enum" :> zodType.values),
                            zodType)
      [] zodType.cls = "ZodArray" ->
            WithDescription(
                ArraySchema(zodType, convertZodTypeToJsonSchema(zodType.type)),
                zodType)
      [] zodType.cls = "ZodObject" -> zodToJsonSchema(zodType.shape)
      [] OTHER ->
            ("type" :> "string")
                @@ ("description" :> IF zodType.description # << >>
                                     THEN zodType.description
                                     ELSE <<"Unknown type">>)

\* validateWithZod's loop from entry i on, validated being the bag built so
\* far and parsed the keys schema.parse was called for; p is schema.parse's
\* outcome for entry i - 1, stored under key. The ZodError raised has one
\* issue: s = <<path, message>>
RECURSIVE ValidateFrom(_, _, _, _, _)
Parsed(zodSchema, args, i, validated, parsed, key, p) ==
    IF p.ok
    THEN ValidateFrom(zodSchema, args, i, Put(validated, key, p.val), parsed)
    ELSE [ok |-> FALSE, val |-> EmptyObj, err |-> ZodErr(key, "invalid"),
          parsed |-> parsed]

ValidateFrom(zodSchema, args, i, validated, parsed) ==
    IF i > Len(zodSchema)
    THEN [ok |-> TRUE, val |-> validated, err |-> Undef, parsed |-> parsed]
    ELSE IF Get(args, zodSchema[i].key).t = "undefined"
            /\ isZodOptional(zodSchema[i].schema)
    THEN IF hasZodDefault(zodSchema[i].schema)
         THEN Parsed(zodSchema, args, i + 1, validated,
                     Append(parsed, zodSchema[i].key), zodSchema[i].key,
                     ZodParse(zodSchema[i].schema, Undef))
         ELSE ValidateFrom(zodSchema, args, i + 1, validated, parsed)
    ELSE Parsed(zodSchema, args, i + 1, validated,
                Append(parsed, zodSchema[i].key), zodSchema[i].key,
                ZodParse(zodSchema[i].schema, Get(args, zodSchema[i].key)))

\* a validateWithZod that starts from the caller's bag instead of {}
validateWithZodPassthrough(zodSchema, args) ==
    ValidateFrom(zodSchema, args, 1, args, << >>)

\* the issues of every field, each field validated on its own
RECURSIVE Issues(_, _, _)
Issues(zodSchema, args, i) ==
    IF i > Len(zodSchema) THEN << >>
    ELSE (IF ValidateFrom(<< zodSchema[i] >>, args, 1, EmptyObj, << >>).ok
          THEN << >>
          ELSE <<zodSchema[i].key, "invalid">>)
         \o Issues(zodSchema, args, i + 1)

\* a validateWithZod that attempts every field and raises one ZodError
\* carrying all the failures
validateWithZodAggregate(zodSchema, args) ==
    IF Issues(zodSchema, args, 1) = << >>
    THEN ValidateFrom(zodSchema, args, 1, EmptyObj, << >>)
    ELSE [ok |-> FALSE, val |-> EmptyObj,
          err |-> Val("ZodError", 0, Issues(zodSchema, args, 1)),
          parsed |-> [i \in 1..Len(zodSchema) |-> zodSchema[i].key]]

validateWithZod(zodSchema, args) == ValidateFrom(zodSchema, args, 1, EmptyObj, << >>)

(***************************************************************************)
(* The declared shapes servers register (Object.entries order)             *)
(***************************************************************************)
Field(key, schema) == [key |-> key, schema |-> schema]

ShapeOf(id) ==
    CASE id = "ShapeA" ->
            << Field("email", ZString(<< Check("email", 0, TRUE) >>)),
               Field("age", ZNumber(<< Check("min", 0, FALSE) >>)) >>
      [] id = "ShapeB" ->
            << Field("op", ZEnum(<< <<"add">>, <<"sub">> >>)),
               Field("n", ZDefault(ZOptional(ZNumber(<< >>)), Num(42))),
               Field("m", ZOptional(ZDefault(ZNumber(<< >>), Num(7)))) >>
      [] OTHER -> << >>

(***************************************************************************)
(* mcp-server.mjs: MCPServer                                               *)
(***************************************************************************)
\* a Map that keeps the entry a key was first given
MapSetKeepFirst(map, entry) ==
    IF \E i \in 1..Len(map) : map[i].name = entry.name
    THEN map
    ELSE Append(map, entry)

\* Map.set(key, entry): an existing key keeps its place, a new one is appended
MapSet(map, entry) ==
    IF \E i \in 1..Len(map) : map[i].name = entry.name
    THEN [i \in 1..Len(map) |-> IF map[i].name = entry.name THEN entry ELSE map[i]]
    ELSE Append(map, entry)

MapHas(map, name) == \E i \in 1..Len(map) : Str(map[i].name) = name

\* Map.get(key), for a key the map has
MapGet(map, name) == map[CHOOSE i \in 1..Len(map) : Str(map[i].name) = name]

\* what a user handler does when it is called: it returns val or throws val
Returns(v) == [kind |-> "return", val |-> v]
Throws(v) == [kind |-> "throw", val |-> v]

\* one call of a user handler: which function, and the argument it received
Call(kind, h, args, uri) == [kind |-> kind, h |-> h, args |-> args, uri |-> uri]

\* the outcome of an async function: it resolves to val or rejects with val;
\* calls lists the user handlers it invoked
Resolved(v, calls) == [threw |-> FALSE, val |-> v, calls |-> calls]
Rejected(v, calls) == [threw |-> TRUE, val |-> v, calls |-> calls]

\* a wrapper message that leaves out the 'Validation error' prefix
ValidationMessageBare(e) == <<e.s[1], ": ", e.s[2]>>

\* the message the validating wrappers build from a ZodError
ValidationMessage(e) == <<"Validation error", ": ", e.s[1], ": ", e.s[2]>>

\* validatedHandler(args), the closure tool() and prompt() store, once
\* validateWithZod has given v; o is what the user handler does if reached
Validated(kind, handler, v, o) ==
    IF ~v.ok
    THEN Rejected(Err(ValidationMessage(v.err)), << >>)
    ELSE IF o.kind = "return"
    THEN Resolved(o.val, << Call(kind, handler, v.val, Undef) >>)
    ELSE IF ~HasProps(o.val)
    THEN Rejected(TypeErr, << Call(kind, handler, v.val, Undef) >>)
    ELSE IF ErrName(o.val) = "ZodError"
    THEN Rejected(Err(ValidationMessage(o.val)), << Call(kind, handler, v.val, Undef) >>)
    ELSE Rejected(o.val, << Call(kind, handler, v.val, Undef) >>)

\* a wrapper that hands the caller's arguments to the handler as they came
validatedHandlerRaw(kind, inputSchema, handler, args, o) ==
    Validated(kind, handler,
              [ok |-> TRUE, val |-> args, err |-> Undef, parsed |-> << >>], o)

validatedHandler(kind, inputSchema, handler, args, o) ==
    Validated(kind, handler, validateWithZod(ShapeOf(inputSchema), args), o)

\* this.config as the constructor leaves it for createMCPServer({name, version})
thisConfig ==
    [name |-> <<"Test Server">>, version |-> <<"1.0.0">>,
     protocolVersion |-> <<"2025-03-26">>]

\* the result of initialize: capabilities is the set of flags it carries
InitializeResult(protocolVersion, capabilities) ==
    [t |-> "object", n |-> 0, s |-> <<"initialize">>,
     protocolVersion |-> protocolVersion, capabilities |-> capabilities,
     serverInfo |-> [name |-> thisConfig.name, version |-> thisConfig.version]]

\* handleInitialize(): it takes no parameter, so params goes unread
handleInitialize(params) ==
    Resolved(InitializeResult(thisConfig.protocolVersion,
                              {"tools", "resources", "prompts"}), << >>)

\* the result of a list method: {tools}, {resources} or {prompts}
ListResult(method, items) ==
    [t |-> "object", n |-> 0, s |-> <<method>>, items |-> items]

handleToolsList ==
    Resolved(ListResult("tools/list",
        [i \in 1..Len(tools) |->
            [name |-> tools[i].name, inputSchema |-> tools[i].inputSchema]]), << >>)

handleResourcesList ==
    Resolved(ListResult("resources/list",
        [i \in 1..Len(resources) |->
            [uri |-> resources[i].uri, name |-> resources[i].name]]), << >>)

handlePromptsList ==
    Resolved(ListResult("prompts/list",
        [i \in 1..Len(prompts) |->
            [name |-> prompts[i].name, inputSchema |-> prompts[i].inputSchema]]), << >>)

\* params.arguments || {}
ArgsOrEmpty(params) == IF params.hasArguments THEN params.arguments ELSE EmptyObj

\* a handleToolsCall without its try/catch
ToolsCallRethrow(r) == r

\* the try/catch of handleToolsCall around the stored handler's outcome r
ToolsCallCatch(r) ==
    IF ~r.threw THEN r
    ELSE IF ~HasProps(r.val) THEN Rejected(TypeErr, r.calls)
    ELSE IF ~CanPrint(Message(r.val)) THEN Rejected(SymbolErr, r.calls)
    ELSE Resolved(ToolError(<<"Error: ">> \o ToText(Message(r.val))), r.calls)

CallTool(tool, params, o) ==
    ToolsCallCatch(validatedHandler("tool", tool.inputSchema, tool.handler,
                                    ArgsOrEmpty(params), o))

handleToolsCall(params, o) ==
    IF ~(params.present /\ Truthy(params.name))
    THEN Rejected(Err(<<"Tool name is ", "required">>), << >>)
    ELSE IF ~MapHas(tools, params.name)
    THEN Rejected(Err(<<"Tool ", "not found", ": ">> \o ToText(params.name)), << >>)
    ELSE CallTool(MapGet(tools, params.name), params, o)

\* Array.from(this.resources.values()).find((r) => r.uri === params.uri)
FindByUri(uri) ==
    LET hits == {i \in 1..Len(resources) : Str(resources[i].uri) = uri}
    IN IF hits = {} THEN 0 ELSE CHOOSE i \in hits : \A j \in hits : i <= j

\* the try/catch of handleResourcesRead around resource.handler(params.uri)
ReadResource(resource, uri, o) ==
    IF o.kind = "return"
    THEN Resolved(o.val, << Call("resource", resource.handler, EmptyObj, uri) >>)
    ELSE IF ~HasProps(o.val)
    THEN Rejected(TypeErr, << Call("resource", resource.handler, EmptyObj, uri) >>)
    ELSE IF ~CanPrint(Message(o.val))
    THEN Rejected(SymbolErr, << Call("resource", resource.handler, EmptyObj, uri) >>)
    ELSE Rejected(Err(<<"Resource read error: ">> \o ToText(Message(o.val))),
                  << Call("resource", resource.handler, EmptyObj, uri) >>)

handleResourcesRead(params, o) ==
    IF ~(params.present /\ Truthy(params.uri))
    THEN Rejected(Err(<<"Resource URI is ", "required">>), << >>)
    ELSE IF FindByUri(params.uri) = 0
    THEN Rejected(Err(<<"Resource ", "not found", ": ">> \o ToText(params.uri)), << >>)
    ELSE ReadResource(resources[FindByUri(params.uri)], params.uri, o)

\* a handlePromptsGet that answers a fault as handleToolsCall does, with a
\* result
PromptsGetAsResult(r) == ToolsCallCatch(r)

\* the try/catch of handlePromptsGet around the stored handler's outcome r
PromptsGetCatch(r) ==
    IF ~r.threw THEN r
    ELSE IF ~HasProps(r.val) THEN Rejected(TypeErr, r.calls)
    ELSE IF ~CanPrint(Message(r.val)) THEN Rejected(SymbolErr, r.calls)
    ELSE Rejected(Err(<<"Prompt execution error: ">> \o ToText(Message(r.val))),
                  r.calls)

GetPrompt(prompt, params, o) ==
    PromptsGetCatch(validatedHandler("prompt", prompt.inputSchema, prompt.handler,
                                     ArgsOrEmpty(params), o))

handlePromptsGet(params, o) ==
    IF ~(params.present /\ Truthy(params.name))
    THEN Rejected(Err(<<"Prompt name is ", "required">>), << >>)
    ELSE IF ~MapHas(prompts, params.name)
    THEN Rejected(Err(<<"Prompt ", "not found", ": ">> \o ToText(params.name)), << >>)
    ELSE GetPrompt(MapGet(prompts, params.name), params, o)

\* a switch that compares only the method's leading segment
BehaviourByPrefix(request) ==
    IF request.method.t = "string"
       /\ request.method.s # << >>
       /\ Head(request.method.s) \in
            { "initialize", "notifications/initialized", "tools/list",
              "tools/call", "resources/list", "resources/read",
              "prompts/list", "prompts/get" }
    THEN Head(request.method.s)
    ELSE "default"

\* the case of handleRequest's switch that request.method selects
Behaviour(request) ==
    IF request.method.t = "string"
       /\ request.method.s \in
            { <<"initialize">>, <<"notifications/initialized">>, <<"tools/list">>,
              <<"tools/call">>, <<"resources/list">>, <<"resources/read">>,
              <<"prompts/list">>, <<"prompts/get">> }
    THEN request.method.s[1]
    ELSE "default"

\* the switch of handleRequest, b being the case request.method selects
Switch(b, request, o) ==
    CASE b = "initialize" -> handleInitialize(request.params)
      [] b = "notifications/initialized" -> Resolved(Null, << >>)
      [] b = "tools/list" -> handleToolsList
      [] b = "tools/call" -> handleToolsCall(request.params, o)
      [] b = "resources/list" -> handleResourcesList
      [] b = "resources/read" -> handleResourcesRead(request.params, o)
      [] b = "prompts/list" -> handlePromptsList
      [] b = "prompts/get" -> handlePromptsGet(request.params, o)
      [] OTHER -> Rejected(Err(<<"Method ", "not found", ": ">>
                                 \o ToText(request.method)), << >>)

\* a handleRequest that keeps a session: until this instance has answered a
\* request it serves initialize only
handleRequestInSession(request, o) ==
    IF first = << >> /\ request.method # Str(<<"initialize">>)
    THEN Rejected(Err(<<"Server not initialized">>), << >>)
    ELSE Switch(Behaviour(request), request, o)

\* handleRequest(request): the switch on request.method
handleRequest(request, o) == Switch(Behaviour(request), request, o)

(***************************************************************************)
(* lambda-adapter.mjs: handleMCPRequest                                    *)
(***************************************************************************)
\* headers[name], '' standing for a header that is not there (both are falsy)
Header(headers, name) == IF name \in DOMAIN headers THEN headers[name] ELSE << >>

\* a || b on strings
OrElse(a, b) == IF a # << >> THEN a ELSE b

\* a parsed JSON value, as far as the envelope's fields are read off it
Msg(t, jsonrpc, method, id, params) ==
    [t |-> t, jsonrpc |-> jsonrpc, method |-> method, id |-> id, params |-> params]

NoParams ==
    [present |-> FALSE, name |-> Undef, uri |-> Undef,
     hasArguments |-> FALSE, arguments |-> EmptyObj, protocolVersion |-> Undef]

\* a JSON value that is no object, or an object without envelope fields
Bare(t) == Msg(t, Undef, Undef, Undef, NoParams)

\* JSON.parse(body || '{}'): an absent or empty body parses as {}
JsonParse(body) ==
    CASE body.k = "absent" -> [ok |-> TRUE, msg |-> Bare("object")]
      [] body.k = "garbage" -> [ok |-> FALSE, msg |-> Bare("object")]
      [] OTHER -> [ok |-> TRUE, msg |-> body.msg]

\* what one run of the Lambda boundary did: the response, whether
\* mcpServer.handleRequest was invoked, and with what outcome
NoOutcome == Resolved(Undef, << >>)
Done(resp) == [threw |-> FALSE, resp |-> resp, dispatched |-> FALSE, hr |-> NoOutcome]
NoResponse == [statusCode |-> 0, headers |-> EmptyObj, body |-> EmptyBody]
Raised == [threw |-> TRUE, resp |-> NoResponse, dispatched |-> FALSE, hr |-> NoOutcome]

\* the catch block of handleMCPRequest
ErrorCodeOf(message) ==
    IF Includes(message, <<"Method ", "not found">>) THEN -32601
    ELSE IF Includes(message, <<"not found">>) \/ Includes(message, <<"required">>)
         THEN -32602
    ELSE -32603

CatchMCPError(error, id, corsHeaders, hr) ==
    IF ~HasProps(error) \/ Message(error).t # "string"
    THEN [threw |-> TRUE, resp |-> NoResponse, dispatched |-> TRUE, hr |-> hr]
    ELSE [threw |-> FALSE,
          resp |-> createErrorResponse(500, ErrorCodeOf(Message(error).s),
                                       Message(error).s, corsHeaders, id),
          dispatched |-> TRUE, hr |-> hr]

ResultEnvelope(result, id) ==
    [k \in {"jsonrpc", "result", "id"} |->
        CASE k = "jsonrpc" -> Str(<<"2.0">>)
          [] k = "result" -> result
          [] OTHER -> id]

\* the try block of handleMCPRequest, hr being handleRequest's outcome
TryMCPRequest(hr, id, corsHeaders) ==
    IF hr.threw
    THEN CatchMCPError(hr.val, id, corsHeaders, hr)
    ELSE IF hr.val = Null
    THEN [threw |-> FALSE, resp |-> createResponse(EmptyBody, 204, corsHeaders),
          dispatched |-> TRUE, hr |-> hr]
    ELSE IF ~CanStringify(ResultEnvelope(hr.val, id))
    THEN CatchMCPError(TypeErr, id, corsHeaders, hr)
    ELSE [threw |-> FALSE,
          resp |-> createResponse(JsonBody(ResultEnvelope(hr.val, id)), 200,
                                  corsHeaders),
          dispatched |-> TRUE, hr |-> hr]

\* handleMCPRequest from the envelope checks on, parsed being JSON.parse's
\* outcome
CheckEnvelope(parsed, jsonRpcMessage, corsHeaders, o) ==
    IF ~parsed.ok
    THEN Done(createErrorResponse(400, -32700,
             <<"Parse error", ": Invalid JSON">>, corsHeaders, Undef))
    ELSE IF jsonRpcMessage.t = "null"
    THEN Raised
    ELSE IF ~Truthy(jsonRpcMessage.jsonrpc) \/ jsonRpcMessage.jsonrpc # Str(<<"2.0">>)
    THEN Done(createErrorResponse(400, -32600,
             <<"Invalid Request", ": missing jsonrpc field">>,
             corsHeaders, jsonRpcMessage.id))
    ELSE IF ~Truthy(jsonRpcMessage.method)
    THEN Done(createErrorResponse(400, -32600,
             <<"Invalid Request", ": missing method field">>,
             corsHeaders, jsonRpcMessage.id))
    ELSE TryMCPRequest(handleRequest(jsonRpcMessage, o), jsonRpcMessage.id,
                       corsHeaders)

\* a handleMCPRequest that parses the body before it looks at Content-Type
handleMCPRequestParseFirst(body, headers, corsHeaders, o) ==
    IF ~JsonParse(body).ok
    THEN Done(createErrorResponse(400, -32700,
             <<"Parse error", ": Invalid JSON">>, corsHeaders, Undef))
    ELSE IF ~Includes(OrElse(Header(headers, "content-type"),
                             Header(headers, "Content-Type")),
                      <<"application/json">>)
    THEN Done(createErrorResponse(400, -32700,
             <<"Parse error", ": Content-Type must be application/json">>,
             corsHeaders, Undef))
    ELSE CheckEnvelope(JsonParse(body), JsonParse(body).msg, corsHeaders, o)

handleMCPRequest(body, headers, corsHeaders, o) ==
    IF ~Includes(OrElse(Header(headers, "content-type"),
                        Header(headers, "Content-Type")),
                 <<"application/json">>)
    THEN Done(createErrorResponse(400, -32700,
             <<"Parse error", ": Content-Type must be application/json">>,
             corsHeaders, Undef))
    ELSE CheckEnvelope(JsonParse(body), JsonParse(body).msg, corsHeaders, o)

(***************************************************************************)
(* lambda-adapter.mjs: createLambdaHandler, the handler without auth       *)
(***************************************************************************)
\* a baseHandler without its try/catch
CatchLambdaErrorNone(r) == r

\* the catch block of baseHandler around handleMCPRequest's outcome r
CatchLambdaError(r) ==
    IF r.threw
    THEN [r EXCEPT !.threw = FALSE,
                   !.resp = createErrorResponse(500, -32603,
                                <<"Internal server error">>,
                                withBasicCORS(JsonContentType), Undef)]
    ELSE r

\* a baseHandler that serves every verb but OPTIONS as a POST
RouteAnyVerb(method, event, o) ==
    IF method = <<"OPTIONS">>
    THEN Done(createResponse(EmptyBody, 200, CORS_HEADERS))
    ELSE CatchLambdaError(handleMCPRequest(event.body, event.headers,
                                           CORS_HEADERS, o))

\* baseHandler once it has read the HTTP verb
Route(method, event, o) ==
    IF method = <<"OPTIONS">>
    THEN Done(createResponse(EmptyBody, 200, CORS_HEADERS))
    ELSE IF method = <<"POST">>
    THEN CatchLambdaError(handleMCPRequest(event.body, event.headers,
                                           CORS_HEADERS, o))
    ELSE IF method = <<"GET">>
    THEN Done(createErrorResponse(405, -32000,
             <<"Method not allowed", ": Stateless mode">>, CORS_HEADERS, Undef))
    ELSE Done(createErrorResponse(405, -32000,
             <<"Method not allowed", ": ">>
                 \o (IF method = << >> THEN <<"undefined">> ELSE method),
             CORS_HEADERS, Undef))

baseHandler(event, o) == Route(OrElse(event.httpMethod, event.rcMethod), event, o)

(***************************************************************************)
(* auth/bearer-token.mjs                                                   *)
(***************************************************************************)
createAuthErrorResponse(statusCode, error, message, additionalHeaders) ==
    [statusCode |-> statusCode,
     headers |-> withCORS(Merge(JsonContentType, additionalHeaders)),
     body |-> JsonBody([k \in {"error", "message"} |->
                 IF k = "error" THEN Str(error) ELSE Str(message)])]

WWWAuthenticate == [k \in {"WWW-Authenticate"} |-> <<"Bearer realm=MCP Server">>]

NoHeaders == [k \in {} |-> << >>]

\* options.auth: no auth, a token list, or a custom validate function.
\* validate is "none" or names what the function does with a token:
\* "sync" returns {isValid: token is GoodToken}, "async" returns a promise of
\* that object, "throws" throws
AuthConfig(type, validate, tokens) ==
    [type |-> type, validate |-> validate, tokens |-> tokens]

GoodToken == <<"secret-1">>

\* config.validate(token, event): what `result && result.isValid` sees.
\* A promise is an object without an isValid property.
CustomValidate(validate, token) ==
    CASE validate = "sync" -> [threw |-> FALSE, isValid |-> token = GoodToken]
      [] validate = "async" -> [threw |-> FALSE, isValid |-> FALSE]
      [] OTHER -> [threw |-> TRUE, isValid |-> FALSE]

Accept(token) == [isValid |-> TRUE, error |-> NoResponse, token |-> token]
Reject(resp) == [isValid |-> FALSE, error |-> resp, token |-> << >>]

Unauthorized(error, message) ==
    Reject(createAuthErrorResponse(401, error, message, WWWAuthenticate))

\* validateBearerToken's custom validation branch, result being what
\* config.validate(token, event) gave
CustomBranch(result, token) ==
    IF result.threw
    THEN Reject(createAuthErrorResponse(500, <<"server_error">>,
             <<"Authentication validation error">>, NoHeaders))
    ELSE IF result.isValid THEN Accept(token)
    ELSE Unauthorized(<<"invalid_token">>, <<"Invalid or expired token">>)

\* validateBearerToken once it has read the Authorization header
CheckHeader(authHeader, config) ==
    IF authHeader = << >>
    THEN Unauthorized(<<"unauthorized">>, <<"Authorization header is required">>)
    ELSE IF Head(authHeader) # "Bearer "
    THEN Unauthorized(<<"unauthorized">>, <<"Bearer token is required">>)
    ELSE IF config.validate # "none"
    THEN CustomBranch(CustomValidate(config.validate, Tail(authHeader)),
                      Tail(authHeader))
    ELSE IF Len(config.tokens) = 0
    THEN Reject(createAuthErrorResponse(500, <<"server_error">>,
             <<"Authentication not configured">>, NoHeaders))
    ELSE IF ~(\E i \in 1..Len(config.tokens) : config.tokens[i] = Tail(authHeader))
    THEN Unauthorized(<<"invalid_token">>, <<"Invalid or expired token">>)
    ELSE Accept(Tail(authHeader))

validateBearerToken(event, config) ==
    CheckHeader(OrElse(Header(event.headers, "authorization"),
                       Header(event.headers, "Authorization")), config)

(***************************************************************************)
(* auth/middleware.mjs                                                     *)
(***************************************************************************)
\* a 500 response of the authentication layer
ServerError(error, message) ==
    [statusCode |-> 500,
     headers |-> withBasicCORS(JsonContentType),
     body |-> JsonBody([k \in {"error", "message"} |->
                 IF k = "error" THEN Str(error) ELSE Str(message)])]

\* handleCORSPreflight(event) !== null
IsPreflight(event) == OrElse(event.rcMethod, event.httpMethod) = <<"OPTIONS">>

\* a middleware that goes on whatever validateBearerToken answered
AuthenticatedLax(authResult) ==
    [responded |-> FALSE, checked |-> TRUE, valid |-> authResult.isValid,
     resp |-> NoResponse]

\* the middleware's result: a response to return (responded), or null to go
\* on; checked tells whether validateBearerToken was called, and valid its
\* isValid
Authenticated(authResult) ==
    IF ~authResult.isValid
    THEN [responded |-> TRUE, checked |-> TRUE, valid |-> FALSE,
          resp |-> authResult.error]
    ELSE [responded |-> FALSE, checked |-> TRUE, valid |-> TRUE,
          resp |-> NoResponse]

\* a middleware that checks the credentials of a preflight too
createAuthMiddlewareAuthFirst(authConfig, event) ==
    IF authConfig.type # "bearer-token"
    THEN [responded |-> TRUE, checked |-> FALSE, valid |-> FALSE,
          resp |-> ServerError(<<"server_error">>,
                               <<"Unsupported authentication type">>)]
    ELSE Authenticated(validateBearerToken(event, authConfig))

\* the middleware of the authenticated handler: preflight, then credentials
createAuthMiddleware(authConfig, event) ==
    IF IsPreflight(event)
    THEN [responded |-> TRUE, checked |-> FALSE, valid |-> FALSE,
          resp |-> [statusCode |-> 200, headers |-> CORS_HEADERS,
                    body |-> EmptyBody]]
    ELSE IF authConfig.type # "bearer-token"
    THEN [responded |-> TRUE, checked |-> FALSE, valid |-> FALSE,
          resp |-> ServerError(<<"server_error">>,
                               <<"Unsupported authentication type">>)]
    ELSE Authenticated(validateBearerToken(event, authConfig))

\* what one invocation of the Lambda handler did: threw tells whether its
\* promise rejected
Ran(threw, resp, checked, valid, dispatched, hr) ==
    [threw |-> threw, resp |-> resp, checked |-> checked, valid |-> valid,
     dispatched |-> dispatched, hr |-> hr]

\* the catch block of the wrapper createAuthenticatedHandler returns
CatchAuthError(r) ==
    IF r.threw
    THEN [r EXCEPT !.threw = FALSE,
                   !.resp = ServerError(<<"internal_server_error">>,
                                        <<"An internal server error occurred">>)]
    ELSE r

\* originalHandler(event), reached when the middleware returned null
Proceed(authResponse, response) ==
    Ran(response.threw, response.resp, authResponse.checked, authResponse.valid,
        response.dispatched, response.hr)

\* the wrapper of createAuthenticatedHandler, authResponse being the
\* middleware's result
AfterMiddleware(authResponse, event, o) ==
    IF authResponse.responded
    THEN Ran(FALSE, authResponse.resp, authResponse.checked, authResponse.valid,
             FALSE, NoOutcome)
    ELSE Proceed(authResponse, baseHandler(event, o))

createAuthenticatedHandler(authConfig, event, o) ==
    CatchAuthError(AfterMiddleware(createAuthMiddleware(authConfig, event), event, o))

\* the catch block of the wrapper createLambdaHandler returns with auth
CatchModuleError(r) ==
    IF r.threw
    THEN [r EXCEPT !.threw = FALSE,
                   !.resp = ServerError(<<"server_error">>,
                                        <<"Authentication module not available">>)]
    ELSE r

Unauthenticated(response) ==
    Ran(response.threw, response.resp, FALSE, FALSE, response.dispatched,
        response.hr)

\* createLambdaHandler(mcpServer, options)(event)
createLambdaHandler(options, event, o) ==
    IF options.type # "none"
    THEN CatchModuleError(createAuthenticatedHandler(options, event, o))
    ELSE Unauthenticated(baseHandler(event, o))

(***************************************************************************)
(* What servers register, and the events and handler behaviours explored   *)
(***************************************************************************)
\* the most entries the three registries hold together
MaxEntries == 2

ToolRegistrations ==
    { [name |-> <<"t1">>, inputSchema |-> "ShapeA", handler |-> "h1"],
      [name |-> <<"t1">>, inputSchema |-> "ShapeB", handler |-> "h2"],
      [name |-> <<"t2">>, inputSchema |-> "ShapeB", handler |-> "h1"] }

ResourceRegistrations ==
    { [name |-> <<"r1">>, uri |-> <<"u1">>, handler |-> "h1"],
      [name |-> <<"r2">>, uri |-> <<"u1">>, handler |-> "h2"],
      [name |-> <<"r1">>, uri |-> <<"u2">>, handler |-> "h2"] }

PromptRegistrations ==
    { [name |-> <<"t1">>, inputSchema |-> "ShapeA", handler |-> "h1"],
      [name |-> <<"t1">>, inputSchema |-> "ShapeB", handler |-> "h2"],
      [name |-> <<"t2">>, inputSchema |-> "ShapeA", handler |-> "h2"] }

HandlerOutcomes ==
    { Returns(Obj(<<"content">>)), Returns(Null), Returns(Undef), Returns(Circular),
      Throws(Err(<<"boom">>)), Throws(Err(<<"record ", "not found">>)),
      Throws(Err(<<"Method ", "not found">>)), Throws(Str(<<"oops">>)),
      Throws(Null), Throws(ZodErr("x", "invalid")), Throws(Unprintable) }

NotCalled == Returns(Undef)

\* argument bags: for ShapeA, for ShapeB, and with keys neither declares
ArgBags ==
    { EmptyObj,
      ("email" :> Str(<<"a", "@", "b">>)) @@ ("age" :> Num(5)),
      ("email" :> Str(<<"a", "@", "b">>)) @@ ("age" :> Num(5)) @@ ("extra" :> Num(1)),
      ("email" :> Str(<<"bad">>)) @@ ("age" :> Num(-5)),
      ("email" :> Str(<<"a", "@", "b">>)) @@ ("age" :> Str(<<"x">>)),
      ("age" :> Num(5)),
      ("op" :> Str(<<"add">>)),
      ("op" :> Str(<<"add">>)) @@ ("n" :> Num(7)) @@ ("m" :> Num(3)),
      ("op" :> Str(<<"mul">>)),
      ("op" :> Str(<<"add">>)) @@ ("n" :> Str(<<"x">>)),
      ("op" :> Str(<<"sub">>)) @@ ("extra" :> Num(1)) }

Params(name, uri, hasArguments, arguments) ==
    [present |-> TRUE, name |-> name, uri |-> uri,
     hasArguments |-> hasArguments, arguments |-> arguments,
     protocolVersion |-> Undef]

\* protocol versions a client may ask for: two the protocol knows, one it
\* does not
ClientVersions == { <<"2024-11-05">>, <<"2025-03-26">>, <<"1999-01-01">> }

\* params of initialize
VersionParams ==
    { [NoParams EXCEPT !.present = TRUE, !.protocolVersion = Str(v)] :
        v \in ClientVersions }

\* names and uris a caller may send that no server registers
UnknownNames == { <<"nope">>, <<"Method ", "not found">>, <<"required">> }

\* params of tools/call and prompts/get
NameParams ==
    { NoParams, Params(Undef, Undef, FALSE, EmptyObj),
      Params(Str(<< >>), Undef, FALSE, EmptyObj) }
    \cup { Params(Str(n), Undef, FALSE, EmptyObj) : n \in UnknownNames \cup {<<"t1">>} }
    \cup { Params(Str(n), Undef, TRUE, a) : n \in {<<"t1">>, <<"t2">>}, a \in ArgBags }

\* params of resources/read
UriParams ==
    { NoParams, Params(Undef, Undef, FALSE, EmptyObj) }
    \cup { Params(Undef, Str(u), FALSE, EmptyObj) :
              u \in UnknownNames \cup {<<"u1">>, <<"u2">>} }

Ids == { Undef, Null, Num(1) }

Envelope(jsonrpc, method, id, params) == Msg("object", jsonrpc, method, id, params)

Json(msg) == [k |-> "json", msg |-> msg]
AbsentBody == [k |-> "absent", msg |-> Bare("object")]
GarbageBody == [k |-> "garbage", msg |-> Bare("object")]

\* methods that take no params the code reads
PlainMethods ==
    { Str(<<"initialize">>), Str(<<"notifications/initialized">>),
      Str(<<"tools/list">>), Str(<<"resources/list">>), Str(<<"prompts/list">>),
      Str(<<"foo">>), Str(<<"tools/call", "/x">>), Num(5) }

Bodies ==
    { AbsentBody, GarbageBody }
    \cup { Json(Bare(t)) : t \in {"null", "number", "string", "array", "object"} }
    \cup { Json(Envelope(j, m, id, NoParams)) :
              j \in {Undef, Str(<<"1.0">>)}, m \in {Undef, Str(<<"tools/list">>)},
              id \in Ids }
    \cup { Json(Envelope(Str(<<"2.0">>), m, id, NoParams)) :
              m \in {Undef, Str(<< >>)} \cup PlainMethods, id \in Ids }
    \cup { Json(Envelope(Str(<<"2.0">>), Str(<<m>>), id, p)) :
              m \in {"tools/call", "prompts/get"}, id \in Ids, p \in NameParams }
    \cup { Json(Envelope(Str(<<"2.0">>), Str(<<"resources/read">>), id, p)) :
              id \in Ids, p \in UriParams }
    \cup { Json(Envelope(Str(<<"2.0">>), Str(<<"initialize">>), Num(1), p)) :
              p \in VersionParams }

Event(httpMethod, rcMethod, headers, body) ==
    [httpMethod |-> httpMethod, rcMethod |-> rcMethod, headers |-> headers,
     body |-> body]

ContentTypeHeaders ==
    { NoHeaders,
      "Content-Type" :> <<"application/json">>,
      "content-type" :> <<"application/json", "; charset=utf-8">>,
      "Content-Type" :> <<"text/plain">>,
      "CONTENT-TYPE" :> <<"application/json">>,
      ("content-type" :> <<"text/plain">>) @@ ("Content-Type" :> <<"application/json">>) }

AuthorizationHeaders ==
    { NoHeaders,
      "Authorization" :> <<"Bearer ", "secret-1">>,
      "authorization" :> <<"Bearer ", "secret-1">>,
      "Authorization" :> <<"Bearer ", "wrong">>,
      "Authorization" :> <<"Basic ", "secret-1">>,
      "Authorization" :> <<"Bearer ">>,
      "AUTHORIZATION" :> <<"Bearer ", "secret-1">> }

NoAuth == AuthConfig("none", "none", << >>)

AuthOptions ==
    { AuthConfig("bearer-token", "none", << >>),
      AuthConfig("bearer-token", "none", << GoodToken >>),
      AuthConfig("bearer-token", "sync", << >>),
      AuthConfig("bearer-token", "async", << >>),
      AuthConfig("bearer-token", "throws", << >>),
      AuthConfig("api-key", "none", << GoodToken >>) }

JsonHeader == "Content-Type" :> <<"application/json">>

ToolsCallBody ==
    Json(Envelope(Str(<<"2.0">>), Str(<<"tools/call">>), Num(1),
                  Params(Str(<<"t1">>), Undef, TRUE, "op" :> Str(<<"add">>))))

ToolsListBody ==
    Json(Envelope(Str(<<"2.0">>), Str(<<"tools/list">>), Num(1), NoParams))

\* invocations of a handler made with createLambdaHandler(server, {auth})
AuthInvocations ==
    { [options |-> a,
       event |-> Event(v[1], v[2], h @@ JsonHeader, ToolsCallBody)] :
         a \in AuthOptions, h \in AuthorizationHeaders,
         v \in { <<<<"POST">>, << >>>>, <<<< >>, <<"POST">>>>, <<<<"OPTIONS">>, << >>>>,
                 <<<<"POST">>, <<"OPTIONS">>>>, <<<<"OPTIONS">>, <<"POST">>>>,
                 <<<<"GET">>, << >>>> } }

\* invocations of a handler made with createLambdaHandler(server)
TransportInvocations ==
    { [options |-> NoAuth, event |-> Event(<<"POST">>, << >>, h, b)] :
         h \in ContentTypeHeaders, b \in {ToolsListBody, GarbageBody, Json(Bare("null"))} }
    \cup { [options |-> NoAuth, event |-> Event(v[1], v[2], JsonHeader, ToolsListBody)] :
         v \in { <<<< >>, <<"POST">>>>, <<<<"OPTIONS">>, << >>>>, <<<<"GET">>, << >>>>,
                 <<<<"DELETE">>, << >>>>, <<<< >>, << >>>>, <<<< >>, <<"GET">>>> } }

DispatchInvocations ==
    { [options |-> NoAuth, event |-> Event(<<"POST">>, << >>, JsonHeader, b)] :
         b \in Bodies }

Invocations == AuthInvocations \cup TransportInvocations \cup DispatchInvocations

\* the user handler's behaviour matters only to the three methods that call one
OutcomesFor(event) ==
    IF event.body.k = "json"
       /\ event.body.msg.method \in
            {Str(<<"tools/call">>), Str(<<"resources/read">>), Str(<<"prompts/get">>)}
    THEN HandlerOutcomes
    ELSE {NotCalled}

(***************************************************************************)
(* State: the three registries of the MCPServer, the invocations of the    *)
(* Lambda handler whose response the platform has not yet taken, and the   *)
(* registration call that has stored its entry and not yet returned.       *)
(* first is the first invocation this server instance answered; util is    *)
(* the call of a schema utility that has not yet returned.                 *)
(***************************************************************************)
Init ==
    /\ tools = << >>
    /\ resources = << >>
    /\ prompts = << >>
    /\ inv = << >>
    /\ registered = << >>
    /\ first = << >>
    /\ util = << >>

Entries == Len(tools) + Len(resources) + Len(prompts)

HasName(map, name) == \E i \in 1..Len(map) : map[i].name = name

\* server.tool(name, inputSchema, handler)
RegisterTool(entry) ==
    /\ inv = << >>
    /\ registered = << >>
    /\ Entries < MaxEntries \/ HasName(tools, entry.name)
    /\ tools' = MapSet(tools, entry)
    /\ registered' = << [kind |-> "tool", entry |-> entry] >>
    /\ UNCHANGED <<resources, prompts, inv, first, util>>

\* server.resource(name, uri, handler)
RegisterResource(entry) ==
    /\ inv = << >>
    /\ registered = << >>
    /\ Entries < MaxEntries \/ HasName(resources, entry.name)
    /\ resources' = MapSet(resources, entry)
    /\ registered' = << [kind |-> "resource", entry |-> entry] >>
    /\ UNCHANGED <<tools, prompts, inv, first, util>>

\* server.prompt(name, inputSchema, handler)
RegisterPrompt(entry) ==
    /\ inv = << >>
    /\ registered = << >>
    /\ Entries < MaxEntries \/ HasName(prompts, entry.name)
    /\ prompts' = MapSet(prompts, entry)
    /\ registered' = << [kind |-> "prompt", entry |-> entry] >>
    /\ UNCHANGED <<tools, resources, inv, first, util>>

\* `return this`: the registration call returns the server to its caller
ReturnThis ==
    /\ registered # << >>
    /\ registered' = << >>
    /\ UNCHANGED <<tools, resources, prompts, inv, first, util>>

\* the record of one invocation: what came in, what the user handler did if
\* it was called, and what the handler r made of it
Invocation(i, o, r) ==
    [options |-> i.options, event |-> i.event,
     outcome |-> IF r.hr.calls # << >> THEN o ELSE NotCalled,
     threw |-> r.threw, resp |-> r.resp, checked |-> r.checked, valid |-> r.valid,
     dispatched |-> r.dispatched, hr |-> r.hr]

\* a handleRequest that drops every tool once a request has failed
RegistriesAfterEvicting(dispatched, hr) ==
    [tools |-> IF dispatched /\ hr.threw THEN << >> ELSE tools,
     resources |-> resources, prompts |-> prompts]

\* this.tools, this.resources and this.prompts once the invocation is over,
\* handleRequest having been called or not (dispatched) and settled with hr:
\* no case of the switch and no handle* method calls set, delete or clear
RegistriesAfter(dispatched, hr) ==
    [tools |-> tools, resources |-> resources, prompts |-> prompts]

\* one run r of the handler on invocation i: the response awaits the
\* platform, and the registries are as the run leaves them
Handle(i, o, r) ==
    /\ inv' = Append(inv, Invocation(i, o, r))
    /\ tools' = RegistriesAfter(r.dispatched, r.hr).tools
    /\ resources' = RegistriesAfter(r.dispatched, r.hr).resources
    /\ prompts' = RegistriesAfter(r.dispatched, r.hr).prompts

\* the platform invokes the handler with an event; the handler runs to its
\* response
Invoke(i, o) ==
    /\ inv = << >>
    /\ registered = << >>
    /\ Handle(i, o, createLambdaHandler(i.options, i.event, o))
    /\ UNCHANGED <<registered, first, util>>

\* the platform takes the response
Deliver ==
    /\ inv # << >>
    /\ inv' = << >>
    /\ UNCHANGED <<tools, resources, prompts, registered, first, util>>

Next ==
    \/ \E e \in ToolRegistrations : RegisterTool(e)
    \/ \E e \in ResourceRegistrations : RegisterResource(e)
    \/ \E e \in PromptRegistrations : RegisterPrompt(e)
    \/ ReturnThis
    \/ \E i \in Invocations : \E o \in OutcomesFor(i.event) : Invoke(i, o)
    \/ Deliver

Spec == Init /\ [][Next]_vars

(***************************************************************************)
(* The schema utilities on their own: zodToJsonSchema and validateWithZod  *)
(* applied to declared shapes and argument bags                            *)
(***************************************************************************)
\* the most fields a declared shape has
MaxFields == 2

\* the shapes of at most MaxFields fields f1, f2, ... over the given types,
\* in Object.entries order
DeclaredShapes(types) ==
    UNION { { [i \in 1..n |-> Field(<<"f1", "f2", "f3", "f4">>[i], f[i])] :
                f \in [1..n -> types] } : n \in 0..MaxFields }

\* the shapes given to zodToJsonSchema: their fields are of every kind the
\* translator has a branch for, bare and under the optional and default
\* wrappers, and of one kind it has none for
TranslatedShapes ==
    DeclaredShapes(
    { ZString(<< >>),
      ZString(<< Check("email", 0, TRUE) >>),
      ZString(<< Check("url", 0, TRUE), Check("min", 1, TRUE) >>),
      ZString(<< Check("min", 2, TRUE), Check("max", 5, TRUE),
                 Check("uuid", 0, TRUE) >>),
      [ZString(<< Check("uuid", 0, TRUE) >>) EXCEPT !.description = <<"an id">>],
      ZNumber(<< >>),
      ZNumber(<< Check("int", 0, TRUE), Check("min", 0, FALSE) >>),
      ZNumber(<< Check("min", 1, TRUE), Check("max", 9, TRUE) >>),
      ZBoolean,
      ZEnum(<< <<"b">>, <<"a">> >>),
      ZArray(ZString(<< >>), Null, Null),
      ZArray(ZNumber(<< Check("int", 0, TRUE) >>), Num(1), Num(3)),
      ZArray(ZObject(<< Field("in", ZBoolean) >>), Null, Num(2)),
      ZObject(<< Field("in", ZString(<< Check("email", 0, TRUE) >>)),
                 Field("opt", ZOptional(ZNumber(<< >>))) >>),
      ZOptional(ZString(<< Check("url", 0, TRUE) >>)),
      ZDefault(ZNumber(<< Check("int", 0, TRUE) >>), Num(3)),
      ZDefault(ZOptional(ZEnum(<< <<"b">>, <<"a">> >>)), Str(<<"a">>)),
      ZOptional(ZDefault(ZBoolean, Val("boolean", 1, << >>))),
      ZOptional(ZObject(<< Field("in", ZDefault(ZString(<< >>), Str(<<"x">>))) >>)),
      [cls |-> "ZodAny", description |-> << >>] })

\* the shapes given to validateWithZod
ValidatedShapes ==
    DeclaredShapes(
    { ZString(<< Check("email", 0, TRUE) >>),
      ZNumber(<< Check("min", 0, FALSE) >>),
      ZBoolean,
      ZEnum(<< <<"b">>, <<"a">> >>),
      ZOptional(ZString(<< Check("email", 0, TRUE) >>)),
      ZDefault(ZNumber(<< >>), Num(3)),
      ZOptional(ZDefault(ZNumber(<< >>), Num(7))) })

\* the bags a caller sends for a shape of n fields: any of the declared
\* fields present, each with a string, a number or a boolean
BagsFor(n) ==
    UNION { [K -> { Str(<<"a", "@", "b">>), Str(<<"a">>), Num(5), Num(-5),
                    Val("boolean", 0, << >>) }] :
              K \in SUBSET { <<"f1", "f2", "f3", "f4">>[i] : i \in 1..n } }

\* zodToJsonSchema(zodSchema)
Translate ==
    /\ util = << >>
    /\ \E zodSchema \in TranslatedShapes :
          util' = << [fn |-> "zodToJsonSchema", zodSchema |-> zodSchema,
                      args |-> EmptyObj, out |-> zodToJsonSchema(zodSchema)] >>
    /\ UNCHANGED <<tools, resources, prompts, inv, registered, first>>

\* validateWithZod(zodSchema, args)
Validate ==
    /\ util = << >>
    /\ \E zodSchema \in ValidatedShapes :
          \E args \in BagsFor(Len(zodSchema)) :
              util' = << [fn |-> "validateWithZod", zodSchema |-> zodSchema,
                          args |-> args, out |-> validateWithZod(zodSchema, args)] >>
    /\ UNCHANGED <<tools, resources, prompts, inv, registered, first>>

\* the utility returns to its caller
ReturnUtil ==
    /\ util # << >>
    /\ util' = << >>
    /\ UNCHANGED <<tools, resources, prompts, inv, registered, first>>

SchemaNext == Translate \/ Validate \/ ReturnUtil

\* nothing is registered and no request is served while a utility runs
SchemaSpec == Init /\ [][SchemaNext]_vars

(***************************************************************************)
(* One server instance serving requests that overlap: registration is      *)
(* over, the platform hands the warm instance one event after another, and *)
(* a response may be taken while later requests are still being served     *)
(***************************************************************************)
\* the most requests in flight at once
MaxInFlight == 2

\* the registries at the end of registration: a server that registered
\* nothing, and one with a tool, a resource and a prompt
Servers ==
    { [tools |-> << >>, resources |-> << >>, prompts |-> << >>],
      [tools |-> MapSet(<< >>, [name |-> <<"t1">>, inputSchema |-> "ShapeB",
                                handler |-> "h2"]),
       resources |-> MapSet(<< >>, [name |-> <<"r1">>, uri |-> <<"u1">>,
                                    handler |-> "h1"]),
       prompts |-> MapSet(<< >>, [name |-> <<"t1">>, inputSchema |-> "ShapeB",
                                  handler |-> "h1"])] }

\* the requests a client sends, in any order: each method, by a name the
\* full server registered, by one nobody registered, and an unknown method
SessionInvocations ==
    { [options |-> NoAuth, event |-> Event(<<"POST">>, << >>, JsonHeader,
          Json(Envelope(Str(<<"2.0">>), m, Num(1), NoParams)))] :
        m \in { Str(<<"initialize">>), Str(<<"notifications/initialized">>),
                Str(<<"tools/list">>), Str(<<"resources/list">>),
                Str(<<"prompts/list">>), Str(<<"foo">>) } }
    \cup { [options |-> NoAuth, event |-> Event(<<"POST">>, << >>, JsonHeader,
          Json(Envelope(Str(<<"2.0">>), Str(<<m>>), Num(1),
               Params(Str(n), Undef, TRUE, "op" :> Str(<<"add">>)))))] :
        m \in {"tools/call", "prompts/get"}, n \in { <<"t1">>, <<"nope">> } }
    \cup { [options |-> NoAuth, event |-> Event(<<"POST">>, << >>, JsonHeader,
          Json(Envelope(Str(<<"2.0">>), Str(<<"resources/read">>), Num(1),
               Params(Undef, Str(<<"u1">>), FALSE, EmptyObj))))] }

SessionInit ==
    /\ \E server \in Servers :
          /\ tools = server.tools
          /\ resources = server.resources
          /\ prompts = server.prompts
    /\ inv = << >>
    /\ registered = << >>
    /\ first = << >>
    /\ util = << >>

\* the platform invokes the handler while earlier invocations may still be
\* awaiting their response; r is the handler's run
Receive(i, o, r) ==
    /\ Len(inv) < MaxInFlight
    /\ Handle(i, o, r)
    /\ first' = IF first = << >> THEN << Invocation(i, o, r) >> ELSE first
    /\ UNCHANGED <<registered, util>>

\* the platform takes the response of one of the invocations in flight
Respond(k) ==
    /\ inv' = [n \in 1..(Len(inv) - 1) |-> IF n < k THEN inv[n] ELSE inv[n + 1]]
    /\ UNCHANGED <<tools, resources, prompts, registered, first, util>>

SessionNext ==
    \/ \E i \in SessionInvocations :
          \E o \in OutcomesFor(i.event)
                   \cap {NotCalled, Returns(Obj(<<"content">>)),
                         Throws(Err(<<"boom">>))} :
              Receive(i, o, createLambdaHandler(i.options, i.event, o))
    \/ \E k \in 1..Len(inv) : Respond(k)

SessionSpec == SessionInit /\ [][SessionNext]_vars

(***************************************************************************)
(* Properties. Each is stated for the invocation c whose response the       *)
(* platform has not yet taken.                                              *)
(***************************************************************************)
Request(c) == c.event.body.msg

MethodIs(c, m) == c.event.body.k = "json" /\ Request(c).method = Str(<<m>>)

KnownMethods ==
    { "initialize", "notifications/initialized", "tools/list", "tools/call",
      "resources/list", "resources/read", "prompts/list", "prompts/get" }

IsKnownMethod(c) == \E m \in KnownMethods : Request(c).method = Str(<<m>>)

\* the response's body as a JSON object with key k
HasKey(resp, k) == resp.body.k = "json" /\ k \in DOMAIN resp.body.o

\* the code of the response's error member, 0 when it has none
ErrorCode(resp) ==
    IF HasKey(resp, "error") /\ resp.body.o["error"].t = "rpcerror"
    THEN resp.body.o["error"].n
    ELSE 0

\* {jsonrpc: '2.0', error: {code, message}, id}
IsErrorEnvelope(resp) ==
    /\ resp.body.k = "json"
    /\ DOMAIN resp.body.o = {"jsonrpc", "error", "id"}
    /\ resp.body.o["jsonrpc"] = Str(<<"2.0">>)
    /\ resp.body.o["error"].t = "rpcerror"

\* the value of the Authorization header, whatever its casing
Credential(event) ==
    OrElse(Header(event.headers, "authorization"),
           OrElse(Header(event.headers, "Authorization"),
                  Header(event.headers, "AUTHORIZATION")))

IsBearer(event) == Credential(event) # << >> /\ Head(Credential(event)) = "Bearer "

InList(tokens, token) == \E i \in 1..Len(tokens) : tokens[i] = token

\* the four rejections: no header, no Bearer scheme, a token outside the
\* configured list, a custom validator that does not accept the token
IsRejected(options, event) ==
    \/ ~IsBearer(event)
    \/ /\ options.validate = "none"
       /\ ~InList(options.tokens, Tail(Credential(event)))
    \/ /\ options.validate # "none"
       /\ (options.validate = "throws" \/ Tail(Credential(event)) # GoodToken)

\* the credential the configuration accepts
IsAccepted(options, event) ==
    /\ IsBearer(event)
    /\ \/ options.validate = "none" /\ InList(options.tokens, Tail(Credential(event)))
       \/ options.validate = "sync" /\ Tail(Credential(event)) = GoodToken

C1Holds(c) ==
    c.options.type # "none" =>
        /\ (c.dispatched \/ c.hr.calls # << >>) =>
              c.checked /\ c.valid /\ IsAccepted(c.options, c.event)
        /\ IsRejected(c.options, c.event) =>
              ~c.dispatched /\ c.hr.calls = << >>

\* C1: on a handler built with authentication the dispatcher (and so every
\* registered handler) is invoked only after the bearer-token validator
\* answered isValid = true for that event; an event with no Authorization
\* header, a non-Bearer scheme, a token outside the configured list or a
\* token the custom validator rejects never reaches the dispatcher.
C1_AuthBeforeDispatch == \A k \in 1..Len(inv) : C1Holds(inv[k])

C1_Witness ==
    \E k \in 1..Len(inv) :
        /\ inv[k].options = AuthConfig("bearer-token", "none", << GoodToken >>)
        /\ Credential(inv[k].event) = <<"Bearer ", "wrong">>
        /\ MapHas(tools, Str(<<"t1">>))
        /\ inv[k].checked /\ ~inv[k].valid
        /\ inv[k].resp.statusCode = 401
        /\ ~inv[k].dispatched

\* the registry entry a tools/call or prompts/get request names
IsRegistered(c) ==
    \/ MethodIs(c, "tools/call") /\ MapHas(tools, Request(c).params.name)
    \/ MethodIs(c, "prompts/get") /\ MapHas(prompts, Request(c).params.name)

StoredEntry(c) ==
    IF MethodIs(c, "tools/call")
    THEN MapGet(tools, Request(c).params.name)
    ELSE MapGet(prompts, Request(c).params.name)

\* what validating the request's arguments against the entry's shape gives
Checked(c) ==
    validateWithZod(ShapeOf(StoredEntry(c).inputSchema),
                    ArgsOrEmpty(Request(c).params))

IsValidatedCall(c, call) ==
    /\ IsRegistered(c)
    /\ call.kind = (IF MethodIs(c, "tools/call") THEN "tool" ELSE "prompt")
    /\ call.h = StoredEntry(c).handler
    /\ Checked(c).ok
    /\ call.args = Checked(c).val

C2Holds(c) ==
    \A j \in 1..Len(c.hr.calls) :
        c.hr.calls[j].kind \in {"tool", "prompt"} => IsValidatedCall(c, c.hr.calls[j])

\* C2: a tool or prompt handler registered with a declared shape is invoked
\* only after the arguments passed validation against that shape, and it
\* receives the validated arguments, never the caller's raw ones; when
\* validation fails the handler is not invoked.
C2_ValidatedArguments == \A k \in 1..Len(inv) : C2Holds(inv[k])

C2_Witness ==
    \E k \in 1..Len(inv) :
        /\ MethodIs(inv[k], "tools/call")
        /\ Len(inv[k].hr.calls) = 1
        /\ inv[k].hr.calls[1].kind = "tool"
        /\ inv[k].hr.calls[1].args # ArgsOrEmpty(Request(inv[k]).params)

\* the behaviour the method names, computed without the switch
Expected(c) ==
    CASE MethodIs(c, "initialize") -> handleInitialize(Request(c).params)
      [] MethodIs(c, "notifications/initialized") -> Resolved(Null, << >>)
      [] MethodIs(c, "tools/list") -> handleToolsList
      [] MethodIs(c, "tools/call") -> handleToolsCall(Request(c).params, c.outcome)
      [] MethodIs(c, "resources/list") -> handleResourcesList
      [] MethodIs(c, "resources/read") -> handleResourcesRead(Request(c).params, c.outcome)
      [] MethodIs(c, "prompts/list") -> handlePromptsList
      [] OTHER -> handlePromptsGet(Request(c).params, c.outcome)

C3Holds(c) ==
    c.dispatched =>
        IF IsKnownMethod(c)
        THEN c.hr = Expected(c)
        ELSE /\ c.hr.threw
             /\ c.hr.calls = << >>
             /\ Includes(c.hr.val.s, <<"Method ", "not found">>)
             /\ ErrorCode(c.resp) = -32601

\* C3: the dispatcher runs exactly the behaviour the method string names for
\* the eight known methods; any other method string raises 'Method not
\* found', which the Lambda boundary answers with code -32601.
C3_MethodRouting == \A k \in 1..Len(inv) : C3Holds(inv[k])

C3_Witness ==
    \E k \in 1..Len(inv) :
        /\ inv[k].dispatched
        /\ Request(inv[k]).method = Str(<<"tools/call", "/x">>)
        /\ inv[k].hr.threw
        /\ ErrorCode(inv[k].resp) = -32601

\* the user handler was called and threw
HandlerThrew(c) == c.hr.calls # << >> /\ c.outcome.kind = "throw"

\* {jsonrpc, result: {content, isError: true}, id}
IsToolErrorResult(resp) ==
    /\ HasKey(resp, "result")
    /\ ~HasKey(resp, "error")
    /\ resp.body.o["result"].t = "toolError"

C4Holds(c) ==
    c.dispatched /\ MethodIs(c, "tools/call") /\ HandlerThrew(c) =>
        /\ ~c.hr.threw
        /\ c.hr.val.t = "toolError"
        /\ c.resp.statusCode = 200
        /\ IsToolErrorResult(c.resp)
        /\ c.resp.body.o["result"] = c.hr.val

\* C4: tools/call never raises when the tool's handler throws: whatever
\* value the handler throws, the dispatcher returns a result with isError
\* true, and the Lambda boundary emits a result envelope, not an error
\* envelope.
C4_ToolThrowIsResult == \A k \in 1..Len(inv) : C4Holds(inv[k])

C5Holds(c) ==
    (/\ c.dispatched
     /\ MethodIs(c, "tools/call")
     /\ IsRegistered(c)
     /\ ~Checked(c).ok) =>
        /\ ~c.hr.threw
        /\ c.hr.val.t = "toolError"
        /\ Includes(c.hr.val.s, <<"Validation error">>)
        /\ IsToolErrorResult(c.resp)

IdEchoed(c) ==
    \/ Get(c.resp.body.o, "id") = Request(c).id
    \/ Request(c).id = Undef /\ Get(c.resp.body.o, "id") = Null

C6Holds(c) ==
    c.dispatched =>
        /\ c.resp.body.k = "empty" <=> MethodIs(c, "notifications/initialized")
        /\ c.resp.body.k = "json" =>
              /\ Get(c.resp.body.o, "jsonrpc") = Str(<<"2.0">>)
              /\ IdEchoed(c)
              /\ HasKey(c.resp, "result") # HasKey(c.resp, "error")

\* C6: every POST whose envelope is well formed (so that it reaches the
\* dispatcher) is answered with an empty body exactly when the method is
\* notifications/initialized, and otherwise with a JSON-RPC response that
\* has jsonrpc '2.0', the request's id and exactly one of result and error,
\* whatever the registered handler returns or throws.
C6_OneResponsePerRequest == \A k \in 1..Len(inv) : C6Holds(inv[k])

StatusCodes == {200, 204, 400, 401, 405, 500}

\* a fault inside the dispatcher or a registered handler
Faulted(c) == c.hr.threw \/ HandlerThrew(c)

C7Holds(c) ==
    /\ ~c.threw
    /\ c.resp.statusCode \in StatusCodes
    /\ c.resp.body.k \in {"empty", "json"}
    /\ Faulted(c) =>
          \/ IsErrorEnvelope(c.resp)
          \/ MethodIs(c, "tools/call") /\ IsToolErrorResult(c.resp)

\* C7: for every event and every behaviour of the registered handlers the
\* Lambda handler resolves to a platform response and never rejects; a fault
\* raised by the dispatcher or a registered handler during a POST becomes a
\* JSON-RPC error envelope {jsonrpc, error: {code, message}, id} or, for
\* tools, a result with isError true.
C7_AlwaysResponds == \A k \in 1..Len(inv) : C7Holds(inv[k])

C7_Witness ==
    \E k \in 1..Len(inv) :
        /\ MethodIs(inv[k], "resources/read")
        /\ inv[k].hr.calls # << >>
        /\ inv[k].outcome = Throws(Null)
        /\ inv[k].hr.threw
        /\ ~inv[k].threw
        /\ IsErrorEnvelope(inv[k].resp)

\* the request gives no name (uri), or one the registry does not hold
IsBadLookup(c) ==
    \/ /\ MethodIs(c, "tools/call")
       /\ ~(Request(c).params.present /\ Truthy(Request(c).params.name))
          \/ ~MapHas(tools, Request(c).params.name)
    \/ /\ MethodIs(c, "prompts/get")
       /\ ~(Request(c).params.present /\ Truthy(Request(c).params.name))
          \/ ~MapHas(prompts, Request(c).params.name)
    \/ /\ MethodIs(c, "resources/read")
       /\ ~(Request(c).params.present /\ Truthy(Request(c).params.uri))
          \/ FindByUri(Request(c).params.uri) = 0

C8Holds(c) ==
    c.dispatched =>
        /\ IsBadLookup(c) => ErrorCode(c.resp) = -32602
        /\ ~IsKnownMethod(c) => ErrorCode(c.resp) = -32601

\* C8: tools/call, resources/read and prompts/get with a missing name (uri)
\* or with a name (uri) that is not registered are answered with code
\* -32602; an unknown method is answered with code -32601.
C8_LookupErrorCodes == \A k \in 1..Len(inv) : C8Holds(inv[k])

\* the event gets past authentication, and its verb is POST
ReachesTransport(c) ==
    /\ c.options = NoAuth \/ c.valid
    /\ OrElse(c.event.httpMethod, c.event.rcMethod) = <<"POST">>

\* no Content-Type header, whatever its casing, contains application/json
NoJsonContentType(event) ==
    \A n \in {"content-type", "Content-Type", "CONTENT-TYPE"} :
        ~Includes(Header(event.headers, n), <<"application/json">>)

ErrorMessage(resp) == resp.body.o["error"].s

C9Holds(c) ==
    (/\ ReachesTransport(c)
     /\ NoJsonContentType(c.event) \/ c.event.body.k = "garbage") =>
        /\ c.resp.statusCode = 400
        /\ ErrorCode(c.resp) = -32700
        /\ ~c.dispatched
        /\ c.hr.calls = << >>
        /\ NoJsonContentType(c.event) =>
              ErrorMessage(c.resp)
                  = <<"Parse error", ": Content-Type must be application/json">>

\* C9: a POST whose Content-Type header does not contain application/json,
\* or whose body is not parseable JSON, is answered with HTTP 400 and code
\* -32700 and never reaches the dispatcher; the Content-Type check precedes
\* the JSON parse.
C9_ParseErrors == \A k \in 1..Len(inv) : C9Holds(inv[k])

C9_Witness ==
    \E k \in 1..Len(inv) :
        /\ ReachesTransport(inv[k])
        /\ NoJsonContentType(inv[k].event)
        /\ inv[k].event.body.k = "garbage"
        /\ inv[k].resp.statusCode = 400
        /\ ErrorMessage(inv[k].resp)
              = <<"Parse error", ": Content-Type must be application/json">>

\* a JSON value that is no object, or an object whose jsonrpc is absent or
\* not '2.0', or whose method is absent or empty
IsMalformedEnvelope(msg) ==
    \/ msg.t # "object"
    \/ msg.jsonrpc # Str(<<"2.0">>)
    \/ msg.method \in {Undef, Str(<< >>)}

C10Holds(c) ==
    (/\ ReachesTransport(c)
     /\ Includes(OrElse(Header(c.event.headers, "content-type"),
                        Header(c.event.headers, "Content-Type")),
                 <<"application/json">>)
     /\ c.event.body.k = "json"
     /\ IsMalformedEnvelope(Request(c))) =>
        /\ ErrorCode(c.resp) = -32600
        /\ ~c.dispatched

\* C10: a POST with a JSON content type whose body parses as JSON but is a
\* malformed envelope (a JSON value that is not an object, an object whose
\* jsonrpc is absent or not '2.0', or whose method is absent or empty) is
\* answered with code -32600, and the dispatcher is not invoked.
C10_InvalidRequest == \A k \in 1..Len(inv) : C10Holds(inv[k])

\* the protocol versions the handshake may adopt from a client
SupportedVersions == { <<"2024-11-05">>, <<"2025-03-26">> }

\* the version the handshake should settle on
NegotiatedVersion(params) ==
    IF params.protocolVersion.t = "string"
       /\ params.protocolVersion.s \in SupportedVersions
    THEN params.protocolVersion.s
    ELSE thisConfig.protocolVersion

C11Holds(c) ==
    c.dispatched /\ MethodIs(c, "initialize") =>
        /\ ~c.hr.threw
        /\ c.hr.val.protocolVersion = NegotiatedVersion(Request(c).params)

\* C11: initialize answers with the protocol version the client asked for
\* when that version is one the server supports, and with the configured
\* default otherwise; it never fails over a version mismatch.
C11_VersionNegotiation == \A k \in 1..Len(inv) : C11Holds(inv[k])

C12Holds(c) ==
    c.dispatched /\ MethodIs(c, "initialize") =>
        /\ "tools" \in c.hr.val.capabilities <=> Len(tools) > 0
        /\ "resources" \in c.hr.val.capabilities <=> Len(resources) > 0
        /\ "prompts" \in c.hr.val.capabilities <=> Len(prompts) > 0

\* C12: the initialize result carries the capability flag for tools
\* (resources, prompts) exactly when the tools (resources, prompts) registry
\* is non-empty at the time of the request.
C12_CapabilityFlags == \A k \in 1..Len(inv) : C12Holds(inv[k])

\* the Authorization header as validateBearerToken reads it
AuthHeader(event) ==
    OrElse(Header(event.headers, "authorization"),
           Header(event.headers, "Authorization"))

C13Holds(c) ==
    (/\ c.options = AuthConfig("bearer-token", "none", << >>)
     /\ ~IsPreflight(c.event)) =>
        /\ c.resp.statusCode \in 500..599
        /\ ~c.valid
        /\ ~c.dispatched
        /\ c.hr.calls = << >>

\* C13: with bearer-token authentication, no custom validator and an empty
\* token list, every request (CORS preflights aside) is rejected with a 5xx
\* response, never accepted and never answered with another status class,
\* and the dispatcher is never invoked.
C13_EmptyTokenListFailsClosed == \A k \in 1..Len(inv) : C13Holds(inv[k])

C14Holds(c) ==
    (/\ c.options = AuthConfig("bearer-token", "async", << >>)
     /\ ~IsPreflight(c.event)
     /\ AuthHeader(c.event) # << >>
     /\ Head(AuthHeader(c.event)) = "Bearer ") =>
        IF Tail(AuthHeader(c.event)) = GoodToken
        THEN c.valid /\ c.resp.statusCode # 401
        ELSE ~c.valid /\ c.resp.statusCode = 401

\* C14: with an asynchronous custom validator (one that returns a promise of
\* {isValid, user}), a request whose token makes the validator resolve to
\* isValid = true is authorized and reaches the base handler, and one whose
\* token makes it resolve to isValid = false is rejected with 401.
C14_AsyncValidator == \A k \in 1..Len(inv) : C14Holds(inv[k])

\* the keys a declared shape names
ShapeKeys(zodSchema) == { zodSchema[i].key : i \in 1..Len(zodSchema) }

C15Holds(c) ==
    \A j \in 1..Len(c.hr.calls) :
        c.hr.calls[j].kind \in {"tool", "prompt"} =>
            DOMAIN c.hr.calls[j].args
                \subseteq ShapeKeys(ShapeOf(StoredEntry(c).inputSchema))

\* C15: the bag validateWithZod returns holds only keys the shape declares:
\* whatever bag the caller sends, every key of the validated bag the handler
\* receives is a key of the declared shape.
C15_OnlyDeclaredKeys == \A k \in 1..Len(inv) : C15Holds(inv[k])

C15_Witness ==
    \E k \in 1..Len(inv) :
        /\ MethodIs(inv[k], "tools/call")
        /\ "extra" \in DOMAIN Request(inv[k]).params.arguments
        /\ Len(inv[k].hr.calls) = 1
        /\ "extra" \notin DOMAIN inv[k].hr.calls[1].args
        /\ DOMAIN inv[k].hr.calls[1].args # {}

\* the default a field's schema carries, under any nesting of wrappers
RECURSIVE DefaultOf(_)
DefaultOf(z) ==
    CASE z.cls = "ZodDefault" -> z.def
      [] z.cls = "ZodOptional" -> DefaultOf(z.inner)
      [] OTHER -> Undef

\* field f of the shape, given the caller's bag raw and validateWithZod's
\* outcome v, of which the handler received the bag args
DefaultApplied(f, raw, v, args) ==
    DefaultOf(f.schema) # Undef =>
        IF Get(raw, f.key) = Undef
        THEN IF v.ok THEN Get(args, f.key) = DefaultOf(f.schema)
             ELSE v.err.s[1] # f.key
        ELSE v.ok => Get(args, f.key) = Get(raw, f.key)

\* the bag the user handler received, {} if it was not called
Received(c) == IF c.hr.calls = << >> THEN EmptyObj ELSE c.hr.calls[1].args

FieldsOf(c) == ShapeOf(StoredEntry(c).inputSchema)

C16Holds(c) ==
    c.dispatched /\ IsRegistered(c) =>
        \A i \in 1..Len(FieldsOf(c)) :
            DefaultApplied(FieldsOf(c)[i], ArgsOrEmpty(Request(c).params),
                           Checked(c), Received(c))

\* C16: for every field that carries a default (a default wrapper, alone or
\* with an optional wrapper in either nesting order): when the caller omits
\* the field the validated bag holds it with the default, when the caller
\* supplies a valid value the validated bag holds that value, and the field
\* is never reported as missing.
C16_DefaultsApplied == \A k \in 1..Len(inv) : C16Holds(inv[k])

\* the registry holds entry e, and no other entry under e's name
IsLatest(map, e) ==
    \E i \in 1..Len(map) :
        /\ map[i] = e
        /\ \A j \in 1..Len(map) : map[j].name = e.name => j = i

\* registering e turned registry old into new: e is the one entry under its
\* name, and the entries under other names are the ones there were
Replaces(old, new, e) ==
    /\ IsLatest(new, e)
    /\ \A i \in 1..Len(old) :
          old[i].name # e.name => \E j \in 1..Len(new) : new[j] = old[i]
    /\ \A j \in 1..Len(new) :
          new[j] = e \/ \E i \in 1..Len(old) : old[i] = new[j]

NamesOnce(map) ==
    \A i, j \in 1..Len(map) : map[i].name = map[j].name => i = j

\* what tools/list shows is the registry, each name once
ListsRegistry(c) ==
    c.dispatched /\ MethodIs(c, "tools/list") =>
        /\ Len(c.hr.val.items) = Len(tools)
        /\ NamesOnce(c.hr.val.items)
        /\ \A i \in 1..Len(tools) : c.hr.val.items[i].name = tools[i].name

\* tools/call reaches no handler but the one registered last under the name
CallsLatest(c) ==
    c.dispatched /\ MethodIs(c, "tools/call") =>
        \A j \in 1..Len(c.hr.calls) :
            \A i \in 1..Len(tools) :
                Str(tools[i].name) = Request(c).params.name =>
                    c.hr.calls[j].h = tools[i].handler

\* the registry a registration call of the given kind writes to
RegistryOf(kind) ==
    CASE kind = "tool" -> tools
      [] kind = "resource" -> resources
      [] OTHER -> prompts

RegistriesConsistent ==
    /\ NamesOnce(tools) /\ NamesOnce(resources) /\ NamesOnce(prompts)
    /\ \A r \in 1..Len(registered) :
          IsLatest(RegistryOf(registered[r].kind), registered[r].entry)
    /\ \A k \in 1..Len(inv) : ListsRegistry(inv[k]) /\ CallsLatest(inv[k])

RegistrationStep ==
    /\ \A e \in ToolRegistrations : RegisterTool(e) => Replaces(tools, tools', e)
    /\ \A e \in ResourceRegistrations :
          RegisterResource(e) => Replaces(resources, resources', e)
    /\ \A e \in PromptRegistrations :
          RegisterPrompt(e) => Replaces(prompts, prompts', e)

C18Holds(c) ==
    c.dispatched /\ MethodIs(c, "resources/read") /\ Truthy(Request(c).params.uri) =>
        /\ \A i \in 1..Len(resources) :
              Str(resources[i].uri) = Request(c).params.uri =>
                  c.hr.calls = << Call("resource", resources[i].handler, EmptyObj,
                                       Request(c).params.uri) >>
        /\ (\A i \in 1..Len(resources) :
                Str(resources[i].uri) # Request(c).params.uri) =>
              /\ c.hr.calls = << >>
              /\ c.hr.threw
              /\ Includes(c.hr.val.s, <<"not found">>)

\* C18: every entry resources/list returns is readable by its listed uri:
\* resources/read with that uri invokes that entry's own handler with the
\* uri as argument, and resources/read with a uri no entry has reports not
\* found without invoking a handler.
C18_ReadableByUri == \A k \in 1..Len(inv) : C18Holds(inv[k])

\* a tools/call on a registered tool whose arguments fail its shape
IsInvalidCall(c) ==
    /\ c.dispatched
    /\ MethodIs(c, "tools/call")
    /\ IsRegistered(c)
    /\ ~Checked(c).ok

C19Holds(c) ==
    IsInvalidCall(c) =>
        /\ c.resp.statusCode = 200
        /\ HasKey(c.resp, "error")
        /\ ErrorCode(c.resp) = -32602
        /\ Includes(ErrorMessage(c.resp), <<"Validation error">>)

C19AmendedHolds(c) ==
    IsInvalidCall(c) =>
        /\ c.resp.statusCode = 200
        /\ ~HasKey(c.resp, "error")
        /\ HasKey(c.resp, "result")
        /\ c.resp.body.o["result"].t = "toolError"
        /\ Includes(c.resp.body.o["result"].s, <<"Validation error">>)
        /\ Get(c.resp.body.o, "id") = Request(c).id

C20Holds(c) ==
    c.dispatched /\ MethodIs(c, "resources/read") /\ HandlerThrew(c) =>
        ErrorCode(c.resp) = -32603

\* C20: when a registered resource handler throws during resources/read the
\* Lambda boundary answers with code -32603, whatever the text of the
\* handler's error message.
C20_ResourceFaultCode == \A k \in 1..Len(inv) : C20Holds(inv[k])

\* a field's type once its optional and default wrappers are taken off
RECURSIVE Unwrapped(_)
Unwrapped(z) ==
    IF z.cls \in {"ZodOptional", "ZodDefault"} THEN Unwrapped(z.inner) ELSE z

HasWrapper(z) == z.cls \in {"ZodOptional", "ZodDefault"}

\* the names of the fields without wrapper, in declaration order
RECURSIVE RequiredFrom(_, _)
RequiredFrom(zodSchema, i) ==
    IF i > Len(zodSchema) THEN << >>
    ELSE (IF HasWrapper(zodSchema[i].schema) THEN << >> ELSE <<zodSchema[i].key>>)
         \o RequiredFrom(zodSchema, i + 1)

IsInt(z) == \E i \in 1..Len(z.checks) : z.checks[i].kind = "int"

\* schema is the JSON-Schema type of field type z; a type of no listed kind
\* may be described in any way
RECURSIVE Describes(_, _)
RECURSIVE DescribesShape(_, _)
Describes(z, schema) ==
    CASE Unwrapped(z).cls = "ZodString" ->
            schema["type"] = "string" /\ "enum" \notin DOMAIN schema
      [] Unwrapped(z).cls = "ZodNumber" ->
            schema["type"] = (IF IsInt(Unwrapped(z)) THEN "integer" ELSE "number")
      [] Unwrapped(z).cls = "ZodBoolean" -> schema["type"] = "boolean"
      [] Unwrapped(z).cls = "ZodEnum" ->
            /\ schema["type"] = "string"
            /\ "enum" \in DOMAIN schema
            /\ schema["enum"] = Unwrapped(z).values
      [] Unwrapped(z).cls = "ZodArray" ->
            /\ schema["type"] = "array"
            /\ "items" \in DOMAIN schema
            /\ Describes(Unwrapped(z).type, schema["items"])
      [] Unwrapped(z).cls = "ZodObject" ->
            DescribesShape(Unwrapped(z).shape, schema)
      [] OTHER -> TRUE

DescribesShape(zodSchema, schema) ==
    /\ {"type", "properties", "required"} \subseteq DOMAIN schema
    /\ schema["type"] = "object"
    /\ DOMAIN schema["properties"] = { zodSchema[i].key : i \in 1..Len(zodSchema) }
    /\ \A i \in 1..Len(zodSchema) :
          Describes(zodSchema[i].schema, schema["properties"][zodSchema[i].key])
    /\ schema["required"] = RequiredFrom(zodSchema, 1)

C21Holds(u) ==
    u.fn = "zodToJsonSchema" =>
        /\ DOMAIN u.out = {"type", "properties", "required"}
        /\ DescribesShape(u.zodSchema, u.out)

\* C21: zodToJsonSchema of a shape is {type: 'object', properties, required}
\* where each field's type is the JSON-Schema type of its kind once optional
\* and default wrappers are taken off (string; number, or integer under an
\* int constraint; boolean; string with the enum's values in declared order;
\* array with items; nested object), and required lists, in declaration
\* order, exactly the fields without optional or default wrapper; nested
\* objects follow the same rule.
C21_PortableDescription == \A k \in 1..Len(util) : C21Holds(util[k])

C21_Witness ==
    \E k \in 1..Len(util) :
        /\ util[k].fn = "zodToJsonSchema"
        /\ Len(util[k].zodSchema) = 2
        /\ util[k].zodSchema[1].schema.cls = "ZodObject"
        /\ util[k].zodSchema[2].schema = ZDefault(ZNumber(<< Check("int", 0, TRUE) >>), Num(3))
        /\ util[k].out["required"] = <<"f1">>
        /\ util[k].out["properties"]["f1"]["required"] = <<"in">>
        /\ util[k].out["properties"]["f2"]["type"] = "integer"

\* a declared field the bag lacks although it has no wrapper, or holds with a
\* value its type rejects
IsBadField(f, args) ==
    IF Get(args, f.key) = Undef
    THEN ~HasWrapper(f.schema)
    ELSE ~ZodParse(f.schema, Get(args, f.key)).ok

BadFields(zodSchema, args) ==
    { i \in 1..Len(zodSchema) : IsBadField(zodSchema[i], args) }

FirstBad(zodSchema, args) ==
    CHOOSE i \in BadFields(zodSchema, args) :
        \A j \in BadFields(zodSchema, args) : i <= j

C26Holds(u) ==
    u.fn = "validateWithZod" =>
        IF BadFields(u.zodSchema, u.args) = {}
        THEN u.out.ok
        ELSE /\ ~u.out.ok
             /\ u.out.err.t = "ZodError"
             /\ Len(u.out.err.s) = 2
             /\ u.out.err.s[1] = u.zodSchema[FirstBad(u.zodSchema, u.args)].key
             /\ \A j \in 1..Len(u.zodSchema) :
                   j > FirstBad(u.zodSchema, u.args) =>
                       \A n \in 1..Len(u.out.parsed) :
                           u.out.parsed[n] # u.zodSchema[j].key

\* C26: validateWithZod stops at the first failure: when one or several
\* declared fields are missing or invalid it raises a ZodError with exactly
\* one entry, whose path is the first such field in declaration order, and
\* no field declared after that one is parsed.
C26_FirstFailureOnly == \A k \in 1..Len(util) : C26Holds(util[k])

C26_Witness ==
    \E k \in 1..Len(util) :
        /\ util[k].fn = "validateWithZod"
        /\ BadFields(util[k].zodSchema, util[k].args) = {1, 2}
        /\ util[k].zodSchema[1].schema = ZString(<< Check("email", 0, TRUE) >>)
        /\ util[k].args = ("f2" :> Num(-5))
        /\ util[k].out.err = ZodErr("f1", "invalid")
        /\ util[k].out.parsed = <<"f1">>

\* the last check of the given kinds, 0 when there is none
LastCheck(checks, kinds) ==
    IF \E i \in 1..Len(checks) : checks[i].kind \in kinds
    THEN CHOOSE i \in 1..Len(checks) :
            /\ checks[i].kind \in kinds
            /\ \A j \in 1..Len(checks) : checks[j].kind \in kinds => j <= i
    ELSE 0

\* the format entry a tag is written as: under the tag's own name, or under
\* the name JSON Schema gives the format
TagName == [kind \in {"email", "url", "uuid"} |-> kind]
JsonSchemaFormat ==
    [kind \in {"email", "url", "uuid"} |-> IF kind = "url" THEN "uri" ELSE kind]

\* schema carries string type z's format tag, written as format gives it,
\* and its bounds
CarriesFormat(z, schema, format) ==
    /\ LastCheck(z.checks, DOMAIN format) # 0 =>
          /\ "format" \in DOMAIN schema
          /\ schema["format"]
                = format[z.checks[LastCheck(z.checks, DOMAIN format)].kind]
    /\ LastCheck(z.checks, {"min"}) # 0 =>
          /\ "minLength" \in DOMAIN schema
          /\ schema["minLength"] = z.checks[LastCheck(z.checks, {"min"})].value
    /\ LastCheck(z.checks, {"max"}) # 0 =>
          /\ "maxLength" \in DOMAIN schema
          /\ schema["maxLength"] = z.checks[LastCheck(z.checks, {"max"})].value

C28Holds(u, format) ==
    u.fn = "zodToJsonSchema" =>
        \A i \in 1..Len(u.zodSchema) :
            Unwrapped(u.zodSchema[i].schema).cls = "ZodString" =>
                CarriesFormat(Unwrapped(u.zodSchema[i].schema),
                              u.out["properties"][u.zodSchema[i].key], format)

\* C28: the portable description of a string field declared with a format
\* tag among email, url and uuid carries a format entry named as the tag
\* (email gives 'email', url gives 'url', uuid gives 'uuid'), together with
\* minLength and maxLength from the declared bounds.
C28_FormatIsTheTag == \A k \in 1..Len(util) : C28Holds(util[k], TagName)

\* C28, as the program behaves: the format entry is 'email' for the email
\* tag, 'uri' for the url tag and 'uuid' for the uuid tag, together with
\* minLength and maxLength from the declared bounds.
C28_FormatOfTheTag == \A k \in 1..Len(util) : C28Holds(util[k], JsonSchemaFormat)

C28_Witness ==
    \E k \in 1..Len(util) :
        /\ util[k].fn = "zodToJsonSchema"
        /\ Len(util[k].zodSchema) = 1
        /\ util[k].zodSchema[1].schema
              = ZString(<< Check("url", 0, TRUE), Check("min", 1, TRUE) >>)
        /\ util[k].out["properties"]["f1"]
              = ("type" :> "string") @@ ("format" :> "uri") @@ ("minLength" :> 1)

\* the event names OPTIONS as its verb, in one verb field or in both
IsOptionsRequest(event) ==
    {event.httpMethod, event.rcMethod} \ {<< >>} = { <<"OPTIONS">> }

C23Holds(c) ==
    IsOptionsRequest(c.event) =>
        /\ ~c.threw
        /\ c.resp.statusCode = 200
        /\ c.resp.body = EmptyBody
        /\ Header(c.resp.headers, "Access-Control-Allow-Origin") = <<"*">>
        /\ \E n \in 1..Len(Header(c.resp.headers, "Access-Control-Allow-Methods")) :
              Header(c.resp.headers, "Access-Control-Allow-Methods")[n] = "POST"
        /\ ~c.checked
        /\ ~c.dispatched
        /\ c.hr.calls = << >>

\* C23: an OPTIONS request is answered with status 200, an empty body and
\* the CORS headers (Access-Control-Allow-Origin '*', Allow-Methods with
\* POST) with or without authentication configured and whatever its
\* Authorization header: validateBearerToken is not called for it, nor is
\* handleRequest.
C23_PreflightFirst == \A k \in 1..Len(inv) : C23Holds(inv[k])

C23_Witness ==
    \E k \in 1..Len(inv) :
        /\ inv[k].options = AuthConfig("bearer-token", "none", << GoodToken >>)
        /\ IsOptionsRequest(inv[k].event)
        /\ AuthHeader(inv[k].event) = <<"Bearer ", "wrong">>
        /\ inv[k].resp.statusCode = 200
        /\ inv[k].resp.body = EmptyBody
        /\ ~inv[k].checked

\* the HTTP verb as baseHandler reads it
BaseVerb(event) == OrElse(event.httpMethod, event.rcMethod)

C24Holds(c) ==
    /\ (/\ c.options = NoAuth \/ c.valid
        /\ BaseVerb(c.event) \notin { <<"POST">>, <<"OPTIONS">> }) =>
          /\ c.resp.statusCode = 405
          /\ ErrorCode(c.resp) = -32000
          /\ ~c.dispatched
          /\ c.hr.calls = << >>
    /\ c.dispatched => BaseVerb(c.event) = <<"POST">>

\* C24: without authentication, or once authentication has succeeded, an
\* event whose HTTP verb is neither POST nor OPTIONS (GET, another verb, no
\* verb at all) is answered with HTTP 405 and code -32000 and does not reach
\* the dispatcher; the dispatcher is invoked for POST only.
C24_MethodNotAllowed == \A k \in 1..Len(inv) : C24Holds(inv[k])

C24_Witness ==
    \E k \in 1..Len(inv) :
        /\ inv[k].options = AuthConfig("bearer-token", "none", << GoodToken >>)
        /\ inv[k].valid
        /\ BaseVerb(inv[k].event) = <<"GET">>
        /\ inv[k].resp.statusCode = 405
        /\ ErrorCode(inv[k].resp) = -32000
        /\ ~inv[k].dispatched

\* prompts/get names a prompt
NamesPrompt(c) == Request(c).params.present /\ Truthy(Request(c).params.name)

C25Holds(c) ==
    c.dispatched /\ MethodIs(c, "prompts/get") =>
        IF ~NamesPrompt(c) \/ ~IsRegistered(c)
        THEN c.hr.threw /\ c.hr.calls = << >>
        ELSE IF ~Checked(c).ok
        THEN c.hr.threw /\ c.hr.calls = << >>
        ELSE /\ Len(c.hr.calls) = 1
             /\ IF c.outcome.kind = "throw"
                THEN c.hr.threw
                ELSE ~c.hr.threw /\ c.hr.val = c.outcome.val

\* C25: handleRequest throws on a prompts/get whose name is missing, whose
\* name is not registered, whose arguments fail the prompt's declared shape
\* (the prompt's handler is then not called) or whose handler throws; in
\* every other case it returns what the prompt's handler returned.
C25_PromptFaultsAreErrors == \A k \in 1..Len(inv) : C25Holds(inv[k])

C25_Witness ==
    \E k \in 1..Len(inv) :
        /\ inv[k].dispatched
        /\ MethodIs(inv[k], "prompts/get")
        /\ IsRegistered(inv[k])
        /\ Checked(inv[k]).ok
        /\ inv[k].outcome = Throws(Err(<<"boom">>))
        /\ inv[k].hr.threw
        /\ inv[k].hr.val = Err(<<"Prompt execution error: ", "boom">>)

\* the event reaches handleMCPRequest and is turned away before the
\* dispatcher: content type, parse or malformed envelope
IsTransportFault(c) ==
    /\ ReachesTransport(c)
    /\ \/ NoJsonContentType(c.event)
       \/ c.event.body.k = "garbage"
       \/ c.event.body.k = "json" /\ IsMalformedEnvelope(Request(c))

C29Holds(c) ==
    (c.options = NoAuth \/ c.valid) =>
        /\ ReachesTransport(c) =>
              (c.resp.statusCode = 200 <=> HasKey(c.resp, "result"))
        /\ c.dispatched /\ ~c.hr.threw /\ c.hr.val = Null =>
              c.resp.statusCode = 204
        /\ IsTransportFault(c) => c.resp.statusCode = 400
        /\ BaseVerb(c.event) \notin { <<"POST">>, <<"OPTIONS">> } =>
              c.resp.statusCode = 405
        /\ c.dispatched /\ c.hr.threw =>
              /\ c.resp.statusCode = 500
              /\ ErrorCode(c.resp) \in {-32601, -32602, -32603}

\* C29: the HTTP status of a response follows from the class of the outcome
\* alone: 200 exactly when the body carries a result, 204 when the
\* dispatcher returned null, 400 for content-type, parse and
\* malformed-envelope faults, 405 for unsupported verbs, and 500 for every
\* error the dispatcher raised, those answered with -32601 and -32602
\* included.
C29_StatusByOutcomeClass == \A k \in 1..Len(inv) : C29Holds(inv[k])

C30Holds(c) ==
    /\ (/\ ReachesTransport(c)
        /\ ~NoJsonContentType(c.event)
        /\ \A n \in DOMAIN c.event.headers :
              n \in {"content-type", "Content-Type", "CONTENT-TYPE"} =>
                  Includes(c.event.headers[n], <<"application/json">>)) =>
          ErrorCode(c.resp) # -32700 \/ c.event.body.k = "garbage"
    /\ (/\ c.options = AuthConfig("bearer-token", "none", << GoodToken >>)
        /\ ~IsPreflight(c.event)
        /\ \E n \in {"authorization", "Authorization", "AUTHORIZATION"} :
              Header(c.event.headers, n) = <<"Bearer ">> \o GoodToken) =>
          c.checked /\ c.valid

\* C30: header names are matched whatever their letter case: a POST whose
\* Content-Type header, under any casing of the name, contains
\* 'application/json' passes the content-type check, and an Authorization
\* header under any casing of its name is seen by the bearer-token check.
C30_HeaderNamesAnyCase == \A k \in 1..Len(inv) : C30Holds(inv[k])

\* invocation c carries the request of invocation d, and the user handler it
\* reached, if any, behaved as d's did
SameRequest(c, d) ==
    /\ c.options = d.options
    /\ c.event = d.event
    /\ c.outcome = d.outcome

\* what the caller of invocation c observes
Observed(c) == [threw |-> c.threw, resp |-> c.resp, hr |-> c.hr]

====
